---- MODULE Spec2Model ----
(***************************************************************************)
(* A model of sfmon: collectors that query the Salesforce platform and     *)
(* refresh Prometheus gauges, and the main program that runs them once at  *)
(* startup and registers them with a blocking cron scheduler.              *)
(*                                                                         *)
(* A gauge is a map from label tuples (in the order of the gauge's label   *)
(* schema) to values.  Gauge.clear() empties the map, labels(..).set(v)    *)
(* writes one entry.  Python's None is the string "None", which is also    *)
(* what the metrics client exports for a None label value.                 *)
(***************************************************************************)
EXTENDS Integers, Sequences, FiniteSets, TLC

VARIABLES gauges, log, last, prev, pc, httpStarts, environ, started, jobs, fired,
          executing, ret, cached_config, config_file_has_schedules

collectorVars == <<gauges, log, last, prev>>
schedulerVars == <<pc, httpStarts, environ, started, jobs, fired, executing>>
callVars == <<ret, cached_config, config_file_has_schedules>>
mainVars == <<schedulerVars, callVars>>
vars == <<gauges, log, last, prev, pc, httpStarts, environ, started, jobs, fired,
          executing, ret, cached_config, config_file_has_schedules>>

\* ------------------------------------------------------------------ bounds
MaxRows == 2
NumIds == 2
MaxDispatch == 2

IdNames == <<"a", "b", "c", "d">>
Ids == {IdNames[i] : i \in 1..NumIds}

PyNone == "None"

RECURSIVE SeqsUpTo(_, _)
SeqsUpTo(S, n) ==
    IF n = 0 THEN {<<>>}
    ELSE LET shorter == SeqsUpTo(S, n - 1)
         IN shorter \cup {Append(s, x) : s \in {t \in shorter : Len(t) = n - 1}, x \in S}

Distinct(s) == \A i, j \in 1..Len(s) : i # j => s[i] # s[j]

\* ------------------------------------------------------------------ gauges
EmptyGauge == <<>>

\* Gauge.clear()
Clear(g) == EmptyGauge

\* Gauge.labels(..).set(v)
SetSeries(g, labels, v) ==
    [l \in DOMAIN g \cup {labels} |-> IF l = labels THEN v ELSE g[l]]

LabelledGauges ==
    {"apex_flex_queue", "unused_permissionsets", "dashboards_with_inactive_users",
     "deployment_details", "deployment_pending_time", "deployment_time",
     "validation_details", "validation_pending_time", "validation_time",
     "suspicious_records", "sre_suspicious_records",
     "salesforce_incidents", "salesforce_maintenance",
     "total_user_licenses", "used_user_licenses", "percent_user_licenses_used",
     "total_permissionset_licenses", "used_permissionset_licenses",
     "percent_permissionset_used",
     "total_usage_based_entitlements_licenses",
     "used_usage_based_entitlements_licenses",
     "percent_usage_based_entitlements_used",
     "api_usage_percentage_gauge", "hourly_large_query_metric",
     "hourly_report_export_metric",
     "apex_entry_point_count", "apex_avg_runtime", "apex_max_runtime",
     "apex_total_runtime", "apex_avg_cputime", "apex_max_cputime",
     "apex_runtime_gt_5s_count", "apex_runtime_gt_10s_count",
     "apex_runtime_gt_5s_percentage"}

\* Gauges declared without labels export one series from the start, value 0.
UnlabelledGauges ==
    {"salesforce_login_success_total", "salesforce_login_failure_total",
     "unique_login_count_total"}

GaugeNames == LabelledGauges \cup UnlabelledGauges

NoLabels == <<>>

Unlabelled(v) == [l \in {NoLabels} |-> v]

InitialGauges ==
    [n \in GaugeNames |-> IF n \in UnlabelledGauges THEN Unlabelled(0) ELSE EmptyGauge]

\* ------------------------------------------------------------------ logger
\* The second answer a collector may need (an HTTP download); NoAux when the
\* collector makes no such call.
NoAux == [exc |-> "none", empty |-> TRUE, hasUserId |-> FALSE, rows |-> <<>>]

LogLine(level, site) == [level |-> level, site |-> site]

Errors(lines) == {i \in 1..Len(lines) : lines[i].level = "error"}

\* --------------------------------------------------- the platform's answers
\* What sf.query_all does for one call: it raises, or returns a result that
\* carries a 'records' list (or, defensively, none).
QueryExceptions == {"Timeout", "SalesforceMalformedRequest", "Exception"}

QueryOk(records) == [exc |-> "none", hasRecords |-> TRUE, records |-> records]

QueryResponses(Records) ==
    {QueryOk(rs) : rs \in SeqsUpTo(Records, MaxRows)}
    \cup {[exc |-> "none", hasRecords |-> FALSE, records |-> <<>>]}
    \cup {[exc |-> e, hasRecords |-> FALSE, records |-> <<>>] : e \in QueryExceptions}

\* The latest collector call: its name, the platform's answers to its query
\* and to its HTTP request, and whether it raised to its caller.
Ran(op, resp, aux, raised) == [op |-> op, resp |-> resp, aux |-> aux, raised |-> raised]

\* query.py: query_records_all.  Every exception is logged and turned into [].
\* sf.query_all follows the continuation cursor itself, so resp.records is the
\* whole result set.
query_records_all(resp) ==
    IF resp.exc = "none"
    THEN [records |-> IF resp.hasRecords THEN resp.records ELSE <<>>, log |-> <<>>,
          raised |-> FALSE]
    ELSE [records |-> <<>>, log |-> <<LogLine("error", "query_records_all")>>,
          raised |-> FALSE]

\* tooling_query_records_all without its last except clause.
tooling_query_records_all_no_catch_all(resp) ==
    IF resp.exc = "none"
    THEN [records |-> IF resp.hasRecords THEN resp.records ELSE <<>>, log |-> <<>>,
          raised |-> FALSE]
    ELSE IF resp.exc = "Exception"
    THEN [records |-> <<>>, log |-> <<>>, raised |-> TRUE]
    ELSE [records |-> <<>>, log |-> <<LogLine("error", "tooling_query_records_all")>>,
          raised |-> FALSE]

\* query.py: tooling_query_records_all.  sf.toolingexecute is one GET of
\* query/?q=...: resp.records is what that one response carries.
tooling_query_records_all(resp) ==
    IF resp.exc = "none"
    THEN [records |-> IF resp.hasRecords THEN resp.records ELSE <<>>, log |-> <<>>,
          raised |-> FALSE]
    ELSE [records |-> <<>>, log |-> <<LogLine("error", "tooling_query_records_all")>>,
          raised |-> FALSE]

\* The Tooling API answers a query with its first page; when the result set
\* is larger the response has done = false and a nextRecordsUrl, and the
\* records of the later pages are served from that URL only.
PagedResponses(Records) ==
    {[exc |-> "none", hasRecords |-> TRUE, records |-> first,
      done |-> (later = <<>>), later |-> later] :
         first \in SeqsUpTo(Records, MaxRows) \ {<<>>}, later \in SeqsUpTo(Records, MaxRows)}
    \cup {[exc |-> "none", hasRecords |-> TRUE, records |-> <<>>, done |-> TRUE, later |-> <<>>]}
    \cup {[exc |-> e, hasRecords |-> FALSE, records |-> <<>>, done |-> TRUE, later |-> <<>>] :
             e \in QueryExceptions}

\* The records a single unpaged query would return.
Unpaged(resp) == resp.records \o resp.later

\* One call of query_records_all by any caller.
QueryCall(resp) ==
    LET q == query_records_all(resp)
    IN /\ ret' = [fn |-> "query_records_all", arg |-> resp, val |-> q.records,
                  raised |-> q.raised]
       /\ log' = q.log
       /\ UNCHANGED <<gauges, last, prev, schedulerVars, cached_config,
                      config_file_has_schedules>>

\* One call of tooling_query_records_all by any caller.
ToolingQueryCall(resp) ==
    LET q == tooling_query_records_all(resp)
    IN /\ ret' = [fn |-> "tooling_query_records_all", arg |-> resp, val |-> q.records,
                  raised |-> q.raised]
       /\ log' = q.log
       /\ UNCHANGED <<gauges, last, prev, schedulerVars, cached_config,
                      config_file_has_schedules>>

\* ------------------------------------------------------- apex_flex_queue.py
FlexRecords == [Id : Ids, ApexClassId : {"c1"}]

RECURSIVE SetFlexRecords(_, _)
SetFlexRecords(g, results) ==
    IF results = <<>> THEN g
    ELSE SetFlexRecords(SetSeries(g, <<Head(results).Id, Head(results).ApexClassId>>, 1),
                        Tail(results))

\* The refresh with the clear() call left out.
FlexQueueAfterNoClear(g, results) ==
    IF results # <<>>
    THEN SetFlexRecords(g, results)
    ELSE SetSeries(g, <<"none", "none">>, 0)

FlexQueueAfter(g, results) ==
    IF results # <<>>
    THEN SetFlexRecords(Clear(g), results)
    ELSE SetSeries(Clear(g), <<"none", "none">>, 0)

monitor_apex_flex_queue(resp) ==
    LET q == query_records_all(resp)
    IN /\ gauges' = [gauges EXCEPT !["apex_flex_queue"] = FlexQueueAfter(@, q.records)]
       /\ log' = q.log
       /\ last' = Ran("monitor_apex_flex_queue", resp, NoAux, FALSE)
       /\ prev' = gauges

\* -------------------------------------------------- tech_debt/permissions.py
PermSetRecords == [Id : Ids, Name : {"ps"}]

RECURSIVE SetPermSetRecords(_, _)
SetPermSetRecords(g, results) ==
    IF results = <<>> THEN g
    ELSE SetPermSetRecords(SetSeries(g, <<Head(results).Name, Head(results).Id>>, 0),
                           Tail(results))

UnusedPermSetsAfter(g, results) == SetPermSetRecords(Clear(g), results)

unassigned_permission_sets(resp) ==
    LET q == query_records_all(resp)
    IN /\ gauges' = [gauges EXCEPT !["unused_permissionsets"] = UnusedPermSetsAfter(@, q.records)]
       /\ log' = q.log
       /\ last' = Ran("unassigned_permission_sets", resp, NoAux, FALSE)
       /\ prev' = gauges

\* --------------------------------------------------- tech_debt/dashboards.py
\* A dashboard whose running user and last-referenced date are filled in, and
\* one where the platform returns null for both.
DashboardRecords ==
    {[Id |-> "a", Title |-> "t", RunningUser |-> "u", CreatedDate |-> "cd",
      LastReferencedDate |-> "ld"],
     [Id |-> "b", Title |-> "t", RunningUser |-> PyNone, CreatedDate |-> "cd",
      LastReferencedDate |-> PyNone]}

DashboardLabels(record) ==
    <<record.Id,
      record.Title,
      IF record.RunningUser # PyNone THEN record.RunningUser ELSE "Unknown",
      record.CreatedDate,
      IF record.LastReferencedDate # PyNone THEN record.LastReferencedDate ELSE "Never">>

RECURSIVE SetDashboardRecords(_, _)
SetDashboardRecords(g, results) ==
    IF results = <<>> THEN g
    ELSE SetDashboardRecords(SetSeries(g, DashboardLabels(Head(results)), 1), Tail(results))

DashboardsAfter(g, results) == SetDashboardRecords(Clear(g), results)

dashboards_with_inactive_users(resp) ==
    LET q == query_records_all(resp)
    IN /\ gauges' = [gauges EXCEPT !["dashboards_with_inactive_users"] = DashboardsAfter(@, q.records)]
       /\ log' = q.log
       /\ last' = Ran("dashboards_with_inactive_users", resp, NoAux, FALSE)
       /\ prev' = gauges

\* ------------------------------------------------------ audit/deployments.py
\* Dates are minutes on a common clock; NoDate is a null date field.
NoDate == [some |-> FALSE, t |-> 0]
Date(t) == [some |-> TRUE, t |-> t]

\* A finished deployment, a finished validation whose start was never
\* recorded, a deployment still in progress, and a record without creator.
DeployRecords ==
    {[Id |-> "a", Status |-> "Succeeded", CheckOnly |-> FALSE, CreatedBy |-> "dev",
      CreatedDate |-> Date(0), StartDate |-> Date(5), CompletedDate |-> Date(15)],
     [Id |-> "b", Status |-> "Failed", CheckOnly |-> TRUE, CreatedBy |-> "dev",
      CreatedDate |-> Date(0), StartDate |-> NoDate, CompletedDate |-> Date(20)],
     [Id |-> "b", Status |-> "InProgress", CheckOnly |-> FALSE, CreatedBy |-> "dev",
      CreatedDate |-> Date(0), StartDate |-> Date(5), CompletedDate |-> NoDate],
     [Id |-> "a", Status |-> "Canceled", CheckOnly |-> FALSE, CreatedBy |-> PyNone,
      CreatedDate |-> Date(0), StartDate |-> NoDate, CompletedDate |-> NoDate]}

status_mapping(status) ==
    CASE status = "Succeeded" -> 1
      [] status = "Failed" -> 0
      [] status = "InProgress" -> 2
      [] status = "Canceled" -> -1
      [] OTHER -> -1

calculate_minutes_difference(start, end) ==
    IF start.some /\ end.some THEN end.t - start.t ELSE 0

\* record['CreatedBy']['Name'] raises TypeError when CreatedBy is null.
DeploymentRaises(record) == record.CreatedBy = PyNone

report_deployment_metrics(gs, record, deployment_time, pending_time, is_validation) ==
    LET details == <<pending_time, deployment_time, record.CreatedBy, record.Status, record.Id>>
        short == <<record.Id, record.CreatedBy, record.Status>>
    IN IF is_validation
       THEN [gs EXCEPT
               !["validation_details"] = SetSeries(@, details, status_mapping(record.Status)),
               !["validation_pending_time"] = SetSeries(@, short, pending_time),
               !["validation_time"] = SetSeries(@, short, deployment_time)]
       ELSE [gs EXCEPT
               !["deployment_details"] = SetSeries(@, details, status_mapping(record.Status)),
               !["deployment_pending_time"] = SetSeries(@, short, pending_time),
               !["deployment_time"] = SetSeries(@, short, deployment_time)]

process_deployment_record(gs, record, is_validation) ==
    report_deployment_metrics(gs, record,
        calculate_minutes_difference(record.StartDate, record.CompletedDate),
        calculate_minutes_difference(record.CreatedDate, record.StartDate),
        is_validation)

\* The loop of get_deployment_status; it stops at the first record that raises.
RECURSIVE ProcessDeployments(_, _)
ProcessDeployments(gs, result) ==
    IF result = <<>> THEN [gauges |-> gs, raised |-> FALSE]
    ELSE LET record == Head(result)
         IN IF record.Status = "InProgress" THEN ProcessDeployments(gs, Tail(result))
            ELSE IF DeploymentRaises(record) THEN [gauges |-> gs, raised |-> TRUE]
            ELSE ProcessDeployments(process_deployment_record(gs, record, record.CheckOnly),
                                    Tail(result))

get_deployment_status(resp) ==
    LET q == tooling_query_records_all(resp)
        done == ProcessDeployments(gauges, q.records)
    IN /\ gauges' = done.gauges
       /\ log' = q.log \o (IF done.raised
                           THEN <<LogLine("error", "get_deployment_status")>> ELSE <<>>)
       /\ last' = Ran("get_deployment_status", resp, NoAux, FALSE)
       /\ prev' = gauges

\* ------------------------------------------------------ audit/audit_trail.py
\* An excerpt of constants.ALLOWED_SECTIONS_ACTIONS.
ALLOWED_SECTIONS_ACTIONS(section) ==
    CASE section = "Holidays" -> {"holiday_insert"}
      [] section = "Groups" -> {"groupMembership"}
      [] OTHER -> {}

\* str.lower() on the action names that occur.
LowerName(a) ==
    CASE a = "groupMembership" -> "groupmembership"
      [] a = "GroupMembership" -> "groupmembership"
      [] a = "changedOwd" -> "changedowd"
      [] OTHER -> a

\* INTEGRATION_USER_NAMES is unset: utils.INTEGRATION_USERS is empty.
INTEGRATION_USERS == {}

categorize_user_group(user_name) ==
    IF user_name \in INTEGRATION_USERS THEN "Integration User" ELSE "Other"

AuditRecords ==
    {[Action |-> "holiday_insert", Section |-> "Holidays", CreatedBy |-> "alice",
      CreatedDate |-> "d1", Display |-> "x", DelegateUser |-> PyNone],
     [Action |-> "GroupMembership", Section |-> "Groups", CreatedBy |-> "alice",
      CreatedDate |-> "d1", Display |-> "x", DelegateUser |-> PyNone],
     [Action |-> "changedOwd", Section |-> "Sharing Defaults", CreatedBy |-> "bob",
      CreatedDate |-> "d1", Display |-> "x", DelegateUser |-> PyNone],
     [Action |-> "groupMembership", Section |-> "Holidays", CreatedBy |-> PyNone,
      CreatedDate |-> "d2", Display |-> "y", DelegateUser |-> PyNone]}

is_allowed_action(record) ==
    LowerName(record.Action) \in {LowerName(a) : a \in ALLOWED_SECTIONS_ACTIONS(record.Section)}

AuditUser(record) == IF record.CreatedBy # PyNone THEN record.CreatedBy ELSE "Unknown"

extract_record_data(record) ==
    <<record.Action, record.Section, AuditUser(record),
      categorize_user_group(AuditUser(record)),
      record.CreatedDate, record.Display, record.DelegateUser>>

RECURSIVE ExposeSuspicious(_, _)
ExposeSuspicious(g, records) ==
    IF records = <<>> THEN g
    ELSE IF is_allowed_action(Head(records)) THEN ExposeSuspicious(g, Tail(records))
    ELSE ExposeSuspicious(SetSeries(g, extract_record_data(Head(records)), 1), Tail(records))

process_suspicious_records(g, records) ==
    IF \E i \in 1..Len(records) : ~is_allowed_action(records[i])
    THEN ExposeSuspicious(g, records)
    ELSE SetSeries(g, <<"none", "none", "No Suspicious Records", "Other", "none", "none", "none">>, 0)

\* The gauge is cleared first, then the audit trail is queried.
expose_suspicious_records(resp) ==
    LET cleared == Clear(gauges["suspicious_records"])
        q == query_records_all(resp)
    IN /\ gauges' = [gauges EXCEPT !["suspicious_records"] =
                        process_suspicious_records(cleared, q.records)]
       /\ log' = q.log
       /\ last' = Ran("expose_suspicious_records", resp, NoAux, FALSE)
       /\ prev' = gauges

\* ------------------------------------- sre/.../sfmon-service/compliance.py
\* The earlier deployment of the same collector: it calls sf.query itself, has
\* no user_group label, skips excluded users and sets no sentinel.
EXCLUDE_USERS == {"Salesforce Admin User", "GitlabIntegration Prod"}

sre_is_allowed_action(record) ==
    \/ AuditUser(record) \in EXCLUDE_USERS
    \/ LowerName(record.Action) \in {LowerName(a) : a \in ALLOWED_SECTIONS_ACTIONS(record.Section)}

sre_extract_record_data(record) ==
    <<record.Action, record.Section, AuditUser(record),
      record.CreatedDate, record.Display, record.DelegateUser>>

RECURSIVE sre_process_suspicious_records(_, _)
sre_process_suspicious_records(g, records) ==
    IF records = <<>> THEN g
    ELSE IF sre_is_allowed_action(Head(records))
         THEN sre_process_suspicious_records(g, Tail(records))
    ELSE sre_process_suspicious_records(
             SetSeries(g, sre_extract_record_data(Head(records)), 1), Tail(records))

sre_expose_suspicious_records(resp) ==
    LET cleared == Clear(gauges["sre_suspicious_records"])
    IN /\ gauges' = [gauges EXCEPT !["sre_suspicious_records"] =
                        IF resp.exc # "none" THEN cleared
                        ELSE sre_process_suspicious_records(cleared,
                                 IF resp.hasRecords THEN resp.records ELSE <<>>)]
       /\ log' = IF resp.exc # "none"
                 THEN <<LogLine("error", "expose_suspicious_records")>> ELSE <<>>
       /\ last' = Ran("sre_expose_suspicious_records", resp, NoAux, FALSE)
       /\ prev' = gauges

\* -------------------------------------------------------- audit/user_login.py
LogFileRecords == [Id : {"log1"}]

\* The downloaded log, as the rows its CSV text holds.  An empty body has no
\* header line either; a log may lack the USER_ID column.
LoginRows == [LOGIN_STATUS : {"LOGIN_NO_ERROR", "LOGIN_ERROR_INVALID_PASSWORD"},
              USER_ID : {"u1", "u2"}]

HttpResponses ==
    {[exc |-> "RequestException", empty |-> TRUE, hasUserId |-> FALSE, rows |-> <<>>],
     [exc |-> "none", empty |-> TRUE, hasUserId |-> FALSE, rows |-> <<>>]}
    \cup {[exc |-> "none", empty |-> FALSE, hasUserId |-> h, rows |-> rs] :
             h \in BOOLEAN, rs \in SeqsUpTo(LoginRows, MaxRows)}

reset_login_gauges(gs) ==
    [gs EXCEPT !["salesforce_login_success_total"] = Unlabelled(0),
               !["salesforce_login_failure_total"] = Unlabelled(0),
               !["unique_login_count_total"] = Unlabelled(0)]

CountStatus(rows, ok) ==
    Cardinality({i \in 1..Len(rows) : (rows[i].LOGIN_STATUS = "LOGIN_NO_ERROR") = ok})

process_login_log(gs, body) ==
    LET counted == [gs EXCEPT
            !["salesforce_login_success_total"] = Unlabelled(CountStatus(body.rows, TRUE)),
            !["salesforce_login_failure_total"] = Unlabelled(CountStatus(body.rows, FALSE))]
    IN IF body.hasUserId
       THEN [counted EXCEPT !["unique_login_count_total"] =
                Unlabelled(Cardinality({body.rows[i].USER_ID : i \in 1..Len(body.rows)}))]
       ELSE counted

\* fetch_latest_login_log asks for the download only when the query found a log.
LoginDownloads(resp) ==
    IF query_records_all(resp).records = <<>> THEN {NoAux} ELSE HttpResponses

monitor_login_events(resp, http) ==
    LET reset == reset_login_gauges(gauges)
        q == query_records_all(resp)
        found == q.records # <<>>
    IN /\ gauges' = IF found /\ http.exc = "none" /\ ~http.empty
                    THEN process_login_log(reset, http)
                    ELSE reset
       /\ log' = q.log \o
                 (IF found /\ http.exc # "none"
                  THEN <<LogLine("error", "monitor_login_events")>>
                  ELSE IF found /\ ~http.empty /\ ~http.hasUserId
                  THEN <<LogLine("warning", "process_login_log")>>
                  ELSE <<>>)
       /\ last' = Ran("monitor_login_events", resp, http, FALSE)
       /\ prev' = gauges

\* ----------------------------------------------------------- overall_sf_org.py
\* Numeric fields of a licence record: a number, or null.
Null == [null |-> TRUE, n |-> 0]
Num(n) == [null |-> FALSE, n |-> n]

\* Gauge.set(None) raises TypeError; so does arithmetic on None.  labels(...)
\* has created the series by then, and a new series holds 0.
Percent(used, total) == (used.n * 100) \div total.n

UserLicenseRecords ==
    {[Name |-> "Salesforce", Status |-> "Active", UsedLicenses |-> Num(5),
      TotalLicenses |-> Num(10)]}

PermSetLicenseRecords ==
    {[MasterLabel |-> "CPQ", Status |-> "Active", ExpirationDate |-> "e1",
      UsedLicenses |-> Num(0), TotalLicenses |-> Num(0)]}

EntitlementRecords ==
    {[MasterLabel |-> "Logins", AmountUsed |-> Null, CurrentAmountAllowed |-> Num(10),
      EndDate |-> "e2"],
     [MasterLabel |-> "Storage", AmountUsed |-> Num(4), CurrentAmountAllowed |-> Null,
      EndDate |-> "e2"]}

LicenseGauges ==
    {"total_user_licenses", "used_user_licenses", "percent_user_licenses_used",
     "total_permissionset_licenses", "used_permissionset_licenses",
     "percent_permissionset_used",
     "total_usage_based_entitlements_licenses",
     "used_usage_based_entitlements_licenses",
     "percent_usage_based_entitlements_used",
     "api_usage_percentage_gauge", "hourly_large_query_metric",
     "hourly_report_export_metric"}

Raised(gs) == [gauges |-> gs, raised |-> TRUE]
Returned(gs) == [gauges |-> gs, raised |-> FALSE]

\* One iteration of the UserLicense loop, statement by statement.
UserLicenseEntry(gs, e) ==
    LET short == <<e.Name, e.Status>>
        g1 == [gs EXCEPT !["total_user_licenses"] = SetSeries(@, short, e.TotalLicenses.n)]
        g2 == [g1 EXCEPT !["used_user_licenses"] = SetSeries(@, short, e.UsedLicenses.n)]
    IN IF e.TotalLicenses.null
       THEN Raised([gs EXCEPT !["total_user_licenses"] = SetSeries(@, short, 0)])
       ELSE IF e.UsedLicenses.null
       THEN Raised([g1 EXCEPT !["used_user_licenses"] = SetSeries(@, short, 0)])
       ELSE IF e.TotalLicenses.n # 0
       THEN Returned([g2 EXCEPT !["percent_user_licenses_used"] =
                SetSeries(@, <<e.Name, e.Status, e.UsedLicenses.n, e.TotalLicenses.n>>,
                          Percent(e.UsedLicenses, e.TotalLicenses))])
       ELSE Returned(g2)

PermSetLicenseEntry(gs, e) ==
    LET short == <<e.MasterLabel, e.Status>>
        g1 == [gs EXCEPT !["total_permissionset_licenses"] = SetSeries(@, short, e.TotalLicenses.n)]
        g2 == [g1 EXCEPT !["used_permissionset_licenses"] = SetSeries(@, short, e.UsedLicenses.n)]
    IN IF e.TotalLicenses.null
       THEN Raised([gs EXCEPT !["total_permissionset_licenses"] = SetSeries(@, short, 0)])
       ELSE IF e.UsedLicenses.null
       THEN Raised([g1 EXCEPT !["used_permissionset_licenses"] = SetSeries(@, short, 0)])
       ELSE IF e.TotalLicenses.n # 0
       THEN Returned([g2 EXCEPT !["percent_permissionset_used"] =
                SetSeries(@, <<e.MasterLabel, e.Status, e.ExpirationDate,
                               e.UsedLicenses.n, e.TotalLicenses.n>>,
                          Percent(e.UsedLicenses, e.TotalLicenses))])
       ELSE Returned(g2)

\* The entitlement loop guards a null AmountUsed but not a null
\* CurrentAmountAllowed.
EntitlementEntry(gs, e) ==
    LET g1 == [gs EXCEPT !["total_usage_based_entitlements_licenses"] =
                  SetSeries(@, <<e.MasterLabel>>, e.CurrentAmountAllowed.n)]
        g2 == IF ~e.AmountUsed.null /\ e.AmountUsed.n # 0
              THEN [g1 EXCEPT !["used_usage_based_entitlements_licenses"] =
                       SetSeries(@, <<e.MasterLabel>>, e.AmountUsed.n)]
              ELSE g1
    IN IF e.CurrentAmountAllowed.null
       THEN Raised([gs EXCEPT !["total_usage_based_entitlements_licenses"] =
                       SetSeries(@, <<e.MasterLabel>>, 0)])
       ELSE IF e.CurrentAmountAllowed.n # 0 /\ ~e.AmountUsed.null
       THEN Returned([g2 EXCEPT !["percent_usage_based_entitlements_used"] =
                SetSeries(@, <<e.MasterLabel, e.EndDate, e.AmountUsed.n,
                               e.CurrentAmountAllowed.n>>,
                          Percent(e.AmountUsed, e.CurrentAmountAllowed))])
       ELSE Returned(g2)

RECURSIVE LicenseLoop(_, _, _)
LicenseLoop(kind, gs, entries) ==
    IF entries = <<>> THEN Returned(gs)
    ELSE LET step == CASE kind = "user" -> UserLicenseEntry(gs, Head(entries))
                       [] kind = "permset" -> PermSetLicenseEntry(gs, Head(entries))
                       [] kind = "entitlement" -> EntitlementEntry(gs, Head(entries))
         IN IF step.raised THEN step ELSE LicenseLoop(kind, step.gauges, Tail(entries))

ClearLicenses(gs) ==
    [n \in GaugeNames |-> IF n \in LicenseGauges THEN Clear(gs[n]) ELSE gs[n]]

\* get_salesforce_licenses has no try block: what a loop raises leaves it, and
\* the queries after that loop are not made.
get_salesforce_licenses(users, permsets, entitlements) ==
    LET q1 == query_records_all(users)
        q2 == query_records_all(permsets)
        q3 == query_records_all(entitlements)
        l1 == LicenseLoop("user", ClearLicenses(gauges), q1.records)
        l2 == LicenseLoop("permset", l1.gauges, q2.records)
        l3 == LicenseLoop("entitlement", l2.gauges, q3.records)
        done == IF l1.raised THEN l1 ELSE IF l2.raised THEN l2 ELSE l3
    IN /\ gauges' = done.gauges
       /\ log' = q1.log \o (IF l1.raised THEN <<>>
                            ELSE q2.log \o (IF l2.raised THEN <<>> ELSE q3.log))
       /\ last' = Ran("get_salesforce_licenses", entitlements, NoAux, done.raised)
       /\ prev' = gauges

\* Pod names are character sequences: get_salesforce_incidents searches them
\* inside a string.
NA1 == <<"N", "A", "1">>
NA10 == <<"N", "A", "1", "0">>

OrganizationRecords == {[InstanceName |-> NA1]}

\* str(list) with quotes and brackets removed: the keys joined by ", ".
RECURSIVE JoinPods(_)
JoinPods(keys) ==
    IF keys = <<>> THEN <<>>
    ELSE IF Len(keys) = 1 THEN keys[1]
    ELSE keys[1] \o <<",", " ">> \o JoinPods(Tail(keys))

\* Python's  sub in text  on strings.
Contains(text, sub) ==
    \E i \in 0..(Len(text) - Len(sub)) : SubSeq(text, i + 1, i + Len(sub)) = sub

\* Active incidents as the status API lists them; severities holds the
\* 'severity' of each entry of IncidentImpacts.
Incidents ==
    {[id |-> "i1", severities |-> <<"major">>, instanceKeys |-> <<NA1>>],
     [id |-> "i2", severities |-> <<"minor">>, instanceKeys |-> <<NA10>>],
     [id |-> "i3", severities |-> <<>>, instanceKeys |-> <<NA1>>]}

StatusResponses(Elements) ==
    {[exc |-> "RequestException", empty |-> TRUE, hasUserId |-> FALSE, rows |-> <<>>]}
    \cup {[exc |-> "none", empty |-> FALSE, hasUserId |-> FALSE, rows |-> es] :
             es \in SeqsUpTo(Elements, MaxRows)}

OkSeries(org, instancepod) == <<org, instancepod, "ok", PyNone>>

\* The for loop of get_salesforce_incidents; an element without impacts raises
\* IndexError, which is logged as a warning and skipped.
RECURSIVE IncidentLoop(_, _, _, _)
IncidentLoop(g, org, instancepod, incidents) ==
    IF incidents = <<>> THEN [gauge |-> g, cnt |-> 0, warnings |-> 0]
    ELSE LET element == Head(incidents)
             hit == /\ element.severities # <<>>
                    /\ Contains(JoinPods(element.instanceKeys), instancepod)
             rest == IncidentLoop(
                         IF hit
                         THEN SetSeries(g, <<org, instancepod, element.severities[1], element.id>>, 1)
                         ELSE g,
                         org, instancepod, Tail(incidents))
         IN [gauge |-> rest.gauge,
             cnt |-> rest.cnt + (IF hit THEN 1 ELSE 0),
             warnings |-> rest.warnings + (IF element.severities = <<>> THEN 1 ELSE 0)]

RECURSIVE Repeat(_, _)
Repeat(line, n) == IF n = 0 THEN <<>> ELSE <<line>> \o Repeat(line, n - 1)

get_salesforce_incidents(g, org, instancepod, status) ==
    IF status.exc # "none"
    THEN [gauge |-> SetSeries(g, OkSeries(org, instancepod), 0),
          log |-> <<LogLine("error", "get_salesforce_incidents")>>]
    ELSE LET loop == IncidentLoop(g, org, instancepod, status.rows)
         IN [gauge |-> IF loop.cnt = 0
                       THEN SetSeries(loop.gauge, OkSeries(org, instancepod), 0)
                       ELSE loop.gauge,
             log |-> Repeat(LogLine("warning", "get_salesforce_incidents"), loop.warnings)]

Maintenances ==
    {[id |-> "m1", instanceKeys |-> <<NA1>>, eventStatus |-> "scheduled",
      plannedStartTime |-> "t1", plannedEndTime |-> "t2"],
     [id |-> "m2", instanceKeys |-> <<NA1, NA10>>, eventStatus |-> "completed",
      plannedStartTime |-> "t1", plannedEndTime |-> "t2"]}

RECURSIVE MaintenanceLoop(_, _, _, _)
MaintenanceLoop(g, env, pod, data) ==
    IF data = <<>> THEN g
    ELSE LET m == Head(data)
             listed == \E i \in 1..Len(m.instanceKeys) : m.instanceKeys[i] = pod
         IN MaintenanceLoop(
                IF listed /\ m.eventStatus \in {"scheduled", "in progress"}
                THEN SetSeries(g, <<env, m.id, m.eventStatus, m.plannedStartTime,
                                    m.plannedEndTime>>, 1)
                ELSE g,
                env, pod, Tail(data))

get_salesforce_maintenances(g, env, pod, status) ==
    IF status.exc # "none"
    THEN [gauge |-> g, log |-> <<LogLine("error", "get_salesforce_maintenances")>>]
    ELSE [gauge |-> MaintenanceLoop(Clear(g), env, pod, status.rows), log |-> <<>>]

\* fetch_pod raises IndexError on an empty result; get_salesforce_instance
\* catches it before anything is cleared.
PodFound(resp) == query_records_all(resp).records # <<>>

IncidentAnswers(resp) ==
    IF PodFound(resp) THEN StatusResponses(Incidents) ELSE {NoAux}

MaintenanceAnswers(resp) ==
    IF PodFound(resp) THEN StatusResponses(Maintenances) ELSE {NoAux}

get_salesforce_instance(resp, incidents, maintenances) ==
    LET q == query_records_all(resp)
        pod == q.records[1].InstanceName
        inc == get_salesforce_incidents(Clear(gauges["salesforce_incidents"]),
                                        "Production", pod, incidents)
        mnt == get_salesforce_maintenances(gauges["salesforce_maintenance"],
                                           "Production", pod, maintenances)
    IN /\ IF PodFound(resp)
          THEN /\ gauges' = [gauges EXCEPT !["salesforce_incidents"] = inc.gauge,
                                           !["salesforce_maintenance"] = mnt.gauge]
               /\ log' = q.log \o inc.log \o mnt.log
          ELSE /\ gauges' = gauges
               /\ log' = q.log \o <<LogLine("error", "get_salesforce_instance")>>
       /\ last' = Ran("get_salesforce_instance", resp, incidents, FALSE)
       /\ prev' = gauges

\* --------------------------------------------------------------------- text
\* A Python string is a sequence of one-character strings.
UpperChars == <<"A", "B", "C", "D", "E", "F", "G", "H", "I", "J", "K", "L", "M",
                "N", "O", "P", "Q", "R", "S", "T", "U", "V", "W", "X", "Y", "Z">>
LowerChars == <<"a", "b", "c", "d", "e", "f", "g", "h", "i", "j", "k", "l", "m",
                "n", "o", "p", "q", "r", "s", "t", "u", "v", "w", "x", "y", "z">>
Digits == {"0", "1", "2", "3", "4", "5", "6", "7", "8", "9"}
Whitespace == {" ", "\t", "\n"}

LowerChar(c) ==
    IF \E i \in 1..26 : UpperChars[i] = c
    THEN LowerChars[CHOOSE i \in 1..26 : UpperChars[i] = c]
    ELSE c

\* str.lower()
lower(s) == [i \in 1..Len(s) |-> LowerChar(s[i])]

RECURSIVE lstrip(_)
lstrip(s) == IF s # <<>> /\ Head(s) \in Whitespace THEN lstrip(Tail(s)) ELSE s

RECURSIVE rstrip(_)
rstrip(s) ==
    IF s # <<>> /\ s[Len(s)] \in Whitespace THEN rstrip(SubSeq(s, 1, Len(s) - 1)) ELSE s

\* str.strip()
strip(s) == rstrip(lstrip(s))

\* The first position at or after i whose character is in (or, with inside
\* FALSE, is not in) chars; Len(s) + 1 when there is none.
Find(s, i, chars, inside) ==
    IF \E j \in i..Len(s) : (s[j] \in chars) = inside
    THEN CHOOSE j \in i..Len(s) :
             /\ (s[j] \in chars) = inside
             /\ \A k \in i..(j - 1) : (s[k] \in chars) # inside
    ELSE Len(s) + 1

HasChar(s, c) == \E i \in 1..Len(s) : s[i] = c

\* str.split(sep) for a one-character separator: empty pieces are kept.
RECURSIVE split_on(_, _)
split_on(s, sep) ==
    LET i == Find(s, 1, {sep}, TRUE)
    IN IF i > Len(s) THEN <<s>>
       ELSE <<SubSeq(s, 1, i - 1)>> \o split_on(SubSeq(s, i + 1, Len(s)), sep)

\* str.split(): pieces between runs of whitespace, none of them empty.
RECURSIVE split(_)
split(s) ==
    LET t == lstrip(s)
        i == Find(t, 1, Whitespace, TRUE)
    IN IF t = <<>> THEN <<>>
       ELSE <<SubSeq(t, 1, i - 1)>> \o split(SubSeq(t, i, Len(t)))

\* A dict with string keys and string values.
EmptyDict == <<>>

DictPut(d, k, v) == [x \in DOMAIN d \cup {k} |-> IF x = k THEN v ELSE d[x]]

\* json.loads, for objects whose members are "key": "value" pairs without
\* escapes; every other text is a JSONDecodeError.
JsonError == [ok |-> FALSE, val |-> EmptyDict]

JsonString(s, i) ==
    LET q == Find(s, i + 1, {"\""}, TRUE)
    IN IF i <= Len(s) /\ s[i] = "\"" /\ q <= Len(s)
       THEN [ok |-> TRUE, text |-> SubSeq(s, i + 1, q - 1), next |-> q + 1]
       ELSE [ok |-> FALSE, text |-> <<>>, next |-> i]

RECURSIVE JsonMembers(_, _, _)
JsonMembers(s, i, acc) ==
    LET k == JsonString(s, Find(s, i, Whitespace, FALSE))
        c == Find(s, k.next, Whitespace, FALSE)
        v == JsonString(s, Find(s, c + 1, Whitespace, FALSE))
        e == Find(s, v.next, Whitespace, FALSE)
    IN IF ~k.ok \/ c > Len(s) \/ s[c] # ":" \/ ~v.ok \/ e > Len(s) THEN JsonError
       ELSE IF s[e] = "," THEN JsonMembers(s, e + 1, DictPut(acc, k.text, v.text))
       ELSE IF s[e] = "}" /\ Find(s, e + 1, Whitespace, FALSE) > Len(s)
       THEN [ok |-> TRUE, val |-> DictPut(acc, k.text, v.text)]
       ELSE JsonError

json_loads(s) ==
    LET i == Find(s, 2, Whitespace, FALSE)
    IN IF s = <<>> \/ s[1] # "{" THEN JsonError
       ELSE IF i <= Len(s) /\ s[i] = "}"
       THEN IF Find(s, i + 1, Whitespace, FALSE) > Len(s)
            THEN [ok |-> TRUE, val |-> EmptyDict] ELSE JsonError
       ELSE JsonMembers(s, 2, EmptyDict)

\* int(text) for a string of decimal digits.
DigitValue(c) == CHOOSE n \in 0..9 : <<"0", "1", "2", "3", "4", "5", "6", "7", "8", "9">>[n + 1] = c

IsNumber(text) == text # <<>> /\ \A i \in 1..Len(text) : text[i] \in Digits

RECURSIVE int(_)
int(text) ==
    IF text = <<>> THEN 0
    ELSE 10 * int(SubSeq(text, 1, Len(text) - 1)) + DigitValue(text[Len(text)])

\* ------------------------------------------------------- scripts/log_parser.py
\* parse_logs returns the rows of the log file the query selects, or None.
NoData(lines) == [some |-> FALSE, rows |-> <<>>, log |-> lines, raised |-> FALSE]

\* The request error, the csv error and any other exception are logged and
\* the function then ends without a return statement.
parse_logs(resp, http) ==
    LET q == query_records_all(resp)
    IN IF q.records = <<>> THEN NoData(q.log)
       ELSE IF http.exc # "none"
       THEN NoData(q.log \o <<LogLine("error", "parse_logs")>>)
       ELSE IF http.empty THEN NoData(q.log)
       ELSE [some |-> TRUE, rows |-> http.rows, log |-> q.log, raised |-> FALSE]

\* ------------------------------------------------------ audit/large_queries.py
LARGE_QUERY_THRESHOLD == 10000

\* A column of a CSV row: its text, or None when the line ends before it.
Field(text) == [some |-> TRUE, text |-> text]
Missing == [some |-> FALSE, text |-> <<>>]

ApiRow(user_id, method, entity, rows_processed) ==
    [USER_ID |-> user_id, METHOD_NAME |-> method, ENTITY_NAME |-> entity,
     ROWS_PROCESSED |-> rows_processed]

Rows5000 == Field(<<"5", "0", "0", "0">>)
Rows15000 == Field(<<"1", "5", "0", "0", "0">>)
Rows20000 == Field(<<"2", "0", "0", "0", "0">>)

\* Rows of the hourly API log: a small and two large queries of three users,
\* a large query without a user and a line cut short before the count.
ApiLogRows ==
    {ApiRow("u1", "query", "Account", Rows5000),
     ApiRow("u2", "query", "Account", Rows15000),
     ApiRow("u3", "queryAll", "Contact", Rows20000),
     ApiRow("", "query", "Account", Rows15000),
     ApiRow("u1", "query", "Lead", Missing)}

\* The log of the documented scenario.
ThreeUserLog ==
    <<ApiRow("u1", "query", "Account", Rows5000),
      ApiRow("u2", "query", "Account", Rows15000),
      ApiRow("u3", "queryAll", "Contact", Rows20000)>>

\* Two large queries of one user by the same method on the same entity.
RepeatedQueryLog ==
    <<ApiRow("u2", "query", "Account", Rows15000),
      ApiRow("u2", "query", "Account", Rows20000)>>

ApiLogs == SeqsUpTo(ApiLogRows, MaxRows) \cup {ThreeUserLog, RepeatedQueryLog}

\* The answers to a log query, which ends in LIMIT 1.
LatestLogResponses == {r \in QueryResponses(LogFileRecords) : Len(r.records) <= 1}

\* The download parse_logs makes, which it makes only when the query found a log.
ApiLogDownloads(resp) ==
    IF query_records_all(resp).records = <<>> THEN {NoAux}
    ELSE {[exc |-> "RequestException", empty |-> TRUE, hasUserId |-> FALSE, rows |-> <<>>],
          [exc |-> "none", empty |-> TRUE, hasUserId |-> FALSE, rows |-> <<>>]}
         \cup {[exc |-> "none", empty |-> FALSE, hasUserId |-> TRUE, rows |-> rs] :
                  rs \in ApiLogs}

UserIds == {"u1", "u2", "u3"}

UserRecord(name) == [Name |-> name]

\* The answers of the User queries, per user id: every user is found; or one
\* is found, one is not and the query for the third times out.
UserDirectories ==
    {[u \in UserIds |-> QueryOk(<<UserRecord(IF u = "u1" THEN "Ann"
                                             ELSE IF u = "u2" THEN "Bob" ELSE "Cy")>>)],
     [u \in UserIds |-> IF u = "u1" THEN QueryOk(<<UserRecord("Ann")>>)
                        ELSE IF u = "u2" THEN QueryOk(<<>>)
                        ELSE [exc |-> "Timeout", hasRecords |-> FALSE, records |-> <<>>]]}

\* audit/utils.py: get_user_name
get_user_name(resp) ==
    LET q == query_records_all(resp)
    IN [name |-> IF q.records # <<>> THEN q.records[1].Name ELSE "Unknown User",
        log |-> q.log]

\* rows_processed.isdigit() raises AttributeError when the value is None.
IsLargeQueryRaises(row) == ~row.ROWS_PROCESSED.some

\* is_large_query without the comparison with the threshold.
is_large_query_any_number(row) == IsNumber(row.ROWS_PROCESSED.text)

is_large_query(row) ==
    /\ IsNumber(row.ROWS_PROCESSED.text)
    /\ int(row.ROWS_PROCESSED.text) > LARGE_QUERY_THRESHOLD

LargeQuery(row, user_name) ==
    <<row.USER_ID, user_name, row.METHOD_NAME, row.ENTITY_NAME, int(row.ROWS_PROCESSED.text)>>

\* The loop of collect_large_queries over the rows left, acc being the set
\* built and the lines logged so far.
RECURSIVE CollectRows(_, _, _)
CollectRows(rows, directory, acc) ==
    IF rows = <<>> THEN acc
    ELSE LET row == Head(rows)
         IN IF IsLargeQueryRaises(row) THEN [acc EXCEPT !.raised = TRUE]
            ELSE IF ~is_large_query(row) THEN CollectRows(Tail(rows), directory, acc)
            ELSE IF row.USER_ID = "" THEN CollectRows(Tail(rows), directory, acc)
            ELSE LET user == get_user_name(directory[row.USER_ID])
                 IN CollectRows(Tail(rows), directory,
                        [acc EXCEPT !.large_queries = @ \cup {LargeQuery(row, user.name)},
                                    !.log = @ \o user.log])

\* A DictReader is true whatever it holds; None is not.
collect_large_queries(resp, http, directory) ==
    LET api_log_records == parse_logs(resp, http)
        start == [large_queries |-> {}, log |-> api_log_records.log, raised |-> FALSE]
    IN IF api_log_records.some
       THEN CollectRows(api_log_records.rows, directory, start)
       ELSE start

LargeQueryLabels(q) == <<q[1], q[2], q[3], q[4]>>

NoLargeQueries == <<"none", "No Large Queries", "none", "none">>

\* report_large_queries without its else branch.
report_large_queries_no_sentinel(large_queries) ==
    IF large_queries # {}
    THEN {g \in [{LargeQueryLabels(q) : q \in large_queries} -> {q[5] : q \in large_queries}] :
             \A l \in DOMAIN g : \E q \in large_queries : LargeQueryLabels(q) = l /\ q[5] = g[l]}
    ELSE {Clear(EmptyGauge)}

\* report_large_queries: the gauge after clear() and the loop.  The loop runs
\* in the set's iteration order, so of two tuples with the same labels either
\* may be the one set last.
report_large_queries(large_queries) ==
    IF large_queries # {}
    THEN {g \in [{LargeQueryLabels(q) : q \in large_queries} -> {q[5] : q \in large_queries}] :
             \A l \in DOMAIN g : \E q \in large_queries : LargeQueryLabels(q) = l /\ q[5] = g[l]}
    ELSE {SetSeries(Clear(EmptyGauge), NoLargeQueries, 0)}

hourly_observe_user_querying_large_records(resp, http, directory) ==
    LET collected == collect_large_queries(resp, http, directory)
    IN /\ IF collected.raised
          THEN /\ gauges' = gauges
               /\ log' = collected.log \o
                         <<LogLine("error", "hourly_observe_user_querying_large_records")>>
          ELSE /\ \E g \in report_large_queries(collected.large_queries) :
                      gauges' = [gauges EXCEPT !["hourly_large_query_metric"] = g]
               /\ log' = collected.log
       /\ last' = Ran("hourly_observe_user_querying_large_records", resp,
                      http, FALSE)
       /\ prev' = gauges

\* One run of the collector, with the call of parse_logs it makes.
LargeQueriesRun(resp, http, directory) ==
    LET api_log_records == parse_logs(resp, http)
    IN /\ hourly_observe_user_querying_large_records(resp, http, directory)
       /\ ret' = [fn |-> "parse_logs", arg |-> resp,
                  val |-> [some |-> api_log_records.some, rows |-> api_log_records.rows],
                  raised |-> api_log_records.raised]
       /\ UNCHANGED <<schedulerVars, cached_config, config_file_has_schedules>>

\* ------------------------------------------------------ scripts/report_export.py
ReportRow(user_id, timestamp, uri) ==
    [USER_ID |-> user_id, TIMESTAMP_DERIVED |-> timestamp, URI |-> uri]

ReportUri == <<"0", "0", "O", "5", "e", "0", "0", "0", "0", "0", "A", "b", "C", "d", "E">>

\* Rows of the hourly ReportExport log: a URI with and without its leading
\* slash, a URI too short for a report id and a line cut short before the URI.
ReportLogRows ==
    {ReportRow("u1", "t1", Field(<<"/">> \o ReportUri)),
     ReportRow("u2", "t2", Field(ReportUri)),
     ReportRow("u1", "t3", Field(<<"/", "h", "o", "m", "e">>)),
     ReportRow("u3", "t4", Missing)}

ReportLogDownloads(resp) ==
    IF query_records_all(resp).records = <<>> THEN {NoAux}
    ELSE {[exc |-> "RequestException", empty |-> TRUE, hasUserId |-> FALSE, rows |-> <<>>],
          [exc |-> "none", empty |-> TRUE, hasUserId |-> FALSE, rows |-> <<>>]}
         \cup {[exc |-> "none", empty |-> FALSE, hasUserId |-> TRUE, rows |-> rs] :
                  rs \in SeqsUpTo(ReportLogRows, MaxRows)}

\* The answers of the Report query.
ReportAnswers ==
    {QueryOk(<<[Name |-> "Pipeline", ReportTypeApiName |-> "Opportunity"]>>),
     QueryOk(<<>>),
     [exc |-> "Timeout", hasRecords |-> FALSE, records |-> <<>>]}

\* The report query of one row: query_records_all in scripts/, a bare
\* sf.query in the prd deployment, whose exception leaves the loop.
ReportLookup(catches, report) ==
    IF catches \/ report.exc = "none"
    THEN query_records_all(report)
    ELSE [records |-> <<>>, log |-> <<>>, raised |-> TRUE]

\* The loop over the rows left, acc being the gauge and the lines logged so far.
RECURSIVE ReportRowsLoop(_, _, _, _, _)
ReportRowsLoop(rows, directory, report, catches, acc) ==
    IF rows = <<>> THEN acc
    ELSE LET row == Head(rows)
             user == get_user_name(directory[row.USER_ID])
             logged == acc.log \o user.log
         IN IF ~row.URI.some THEN [acc EXCEPT !.log = logged, !.raised = TRUE]
            ELSE LET uri == row.URI.text
                     modified_id == IF uri # <<>> /\ Head(uri) = "/" THEN Tail(uri) ELSE uri
                     result == ReportLookup(catches, report)
                     found == result.records # <<>>
                 IN IF Len(modified_id) < 15
                    THEN ReportRowsLoop(Tail(rows), directory, report, catches,
                             [acc EXCEPT !.log = logged \o
                                  <<LogLine("warning", "hourly_report_export_records")>>])
                    ELSE IF result.raised
                    THEN [acc EXCEPT !.log = logged, !.raised = TRUE]
                    ELSE ReportRowsLoop(Tail(rows), directory, report, catches,
                             [acc EXCEPT
                                 !.gauge = SetSeries(@,
                                     <<user.name, row.TIMESTAMP_DERIVED,
                                       IF found THEN result.records[1].Name ELSE PyNone,
                                       IF found THEN result.records[1].ReportTypeApiName
                                       ELSE PyNone>>, 1),
                                 !.log = logged \o result.log])

\* The body of hourly_report_export_records.  Iterating over None raises
\* TypeError, which the function's except clause logs.
ReportExport(op, catches, resp, http, directory, report) ==
    LET api_log_records == parse_logs(resp, http)
        start == [gauge |-> Clear(gauges["hourly_report_export_metric"]),
                  log |-> api_log_records.log, raised |-> FALSE]
        looped == IF api_log_records.some
                  THEN ReportRowsLoop(api_log_records.rows, directory, report, catches, start)
                  ELSE [start EXCEPT !.raised = TRUE]
    IN /\ gauges' = [gauges EXCEPT !["hourly_report_export_metric"] = looped.gauge]
       /\ log' = looped.log \o
                 (IF looped.raised THEN <<LogLine("error", op)>> ELSE <<>>)
       /\ last' = Ran(op, resp, http, FALSE)
       /\ prev' = gauges

hourly_report_export_records(resp, http, directory, report) ==
    ReportExport("hourly_report_export_records", TRUE, resp, http, directory, report)

\* sre/deployments/scripts/sfmon-service/prd/report_export.py
sre_hourly_report_export_records(resp, http, directory, report) ==
    ReportExport("sre_hourly_report_export_records", FALSE, resp, http, directory, report)

\* ------------------------------------- overall_sf_org.py: monitor_salesforce_limits
LimitNames == {"DailyApiRequests", "DataStorageMB", "HourlyTimeBasedWorkflow"}

\* One entry of the limits resource; an entry may lack its numbers.
LimitData == {[ok |-> TRUE, Max |-> 100, Remaining |-> 40],
              [ok |-> TRUE, Max |-> 0, Remaining |-> 0],
              [ok |-> FALSE, Max |-> 0, Remaining |-> 0]}

LimitEntries == [name : LimitNames, data : LimitData]

DistinctNames(entries) ==
    \A i, j \in 1..Len(entries) : i # j => entries[i].name # entries[j].name

\* What sf.limits() does: it raises, or returns the entries in the order of
\* the response.
LimitsResponses ==
    {[exc |-> "none", limits |-> es] :
         es \in {s \in SeqsUpTo(LimitEntries, MaxRows) : DistinctNames(s)}}
    \cup {[exc |-> e, limits |-> <<>>] : e \in {"Timeout", "Exception"}}

\* salesforce_limits_descriptions.get(limit_name, 'Description not available')
LimitDescription(limit_name) ==
    IF limit_name = "DailyApiRequests" THEN "Daily API requests"
    ELSE "Description not available"

\* The loop over limits.items(), acc being the gauge so far.
RECURSIVE LimitsLoop(_, _)
LimitsLoop(entries, acc) ==
    IF entries = <<>> THEN acc
    ELSE LET limit_name == Head(entries).name
             limit_data == Head(entries).data
             max_limit == limit_data.Max
             used == max_limit - limit_data.Remaining
         IN IF ~limit_data.ok THEN [acc EXCEPT !.raised = TRUE]
            ELSE IF max_limit # 0
            THEN LimitsLoop(Tail(entries),
                     [acc EXCEPT !.gauge = SetSeries(@,
                         <<limit_name, LimitDescription(limit_name), used, max_limit>>,
                         (used * 100) \div max_limit)])
            ELSE LimitsLoop(Tail(entries), acc)

\* monitor_salesforce_limits with clear() ahead of sf.limits().
monitor_salesforce_limits_clear_first(resp) ==
    LET cleared == [gauge |-> Clear(gauges["api_usage_percentage_gauge"]), raised |-> FALSE]
        looped == IF resp.exc # "none" THEN [cleared EXCEPT !.raised = TRUE]
                  ELSE LimitsLoop(resp.limits, cleared)
    IN /\ gauges' = [gauges EXCEPT !["api_usage_percentage_gauge"] = looped.gauge]
       /\ log' = IF looped.raised
                 THEN <<LogLine("error", "monitor_salesforce_limits")>> ELSE <<>>
       /\ last' = Ran("monitor_salesforce_limits", resp, NoAux, FALSE)
       /\ prev' = gauges

monitor_salesforce_limits(resp) ==
    LET cleared == [gauge |-> Clear(gauges["api_usage_percentage_gauge"]), raised |-> FALSE]
        looped == IF resp.exc # "none"
                  THEN [gauge |-> gauges["api_usage_percentage_gauge"], raised |-> TRUE]
                  ELSE LimitsLoop(resp.limits, cleared)
    IN /\ gauges' = [gauges EXCEPT !["api_usage_percentage_gauge"] = looped.gauge]
       /\ log' = IF looped.raised
                 THEN <<LogLine("error", "monitor_salesforce_limits")>> ELSE <<>>
       /\ last' = Ran("monitor_salesforce_limits", resp, NoAux, FALSE)
       /\ prev' = gauges

\* --------------------------- sre/.../sfmon-service/apex_jobs.py: execution summary
ApexRow(entry_point, quiddity, run_time, cpu_time) ==
    [ENTRY_POINT |-> entry_point, QUIDDITY |-> quiddity, RUN_TIME |-> run_time,
     CPU_TIME |-> cpu_time]

\* Rows of the hourly ApexExecution log: runs under and over 5 s and 10 s, a
\* quiddity the summary leaves out, and a run time that is not a number.
ApexLogRows ==
    {ApexRow("A", "F", <<"1", "0", "0", "0">>, <<"1", "0">>),
     ApexRow("A", "F", <<"6", "0", "0", "0">>, <<"3", "0">>),
     ApexRow("B", "S", <<"1", "2", "0", "0", "0">>, <<"2", "0">>),
     ApexRow("A", "X", <<"6", "0", "0", "0">>, <<"1", "0">>),
     ApexRow("B", "F", <<"n", "/", "a">>, <<"1", "0">>)}

ApexLogDownloads(resp) ==
    IF query_records_all(resp).records = <<>> THEN {NoAux}
    ELSE {[exc |-> "RequestException", empty |-> TRUE, hasUserId |-> FALSE, rows |-> <<>>],
          [exc |-> "none", empty |-> TRUE, hasUserId |-> FALSE, rows |-> <<>>]}
         \cup {[exc |-> "none", empty |-> FALSE, hasUserId |-> FALSE, rows |-> rs] :
                  rs \in SeqsUpTo(ApexLogRows, MaxRows)}

valid_quiddities == {"F", "S", "Q", "BA", "C", "K", "QTXF", "B"}

RECURSIVE Gcd(_, _)
Gcd(a, b) == IF b = 0 THEN a ELSE Gcd(b, a % b)

\* A float quotient, kept as the fraction in lowest terms.
Quotient(a, b) ==
    LET g == IF a = 0 THEN b ELSE Gcd(a, b) IN [num |-> a \div g, den |-> b \div g]

RECURSIVE SumOver(_, _)
SumOver(f, S) ==
    IF S = {} THEN 0 ELSE LET i == CHOOSE x \in S : TRUE IN f[i] + SumOver(f, S \ {i})

MaxOver(f, S) == CHOOSE m \in {f[i] : i \in S} : \A i \in S : f[i] <= m

\* Gauge.labels(..).inc(v)
IncSeries(g, labels, v) ==
    SetSeries(g, labels, (IF labels \in DOMAIN g THEN g[labels] ELSE 0) + v)

\* The gauge after the loop over grouped.iterrows(), value(label) being what
\* the row of that group holds for the gauge.
SetGroups(g, groups, value(_)) ==
    [l \in DOMAIN g \cup groups |-> IF l \in groups THEN value(l) ELSE g[l]]

IncGroups(g, groups, value(_)) ==
    [l \in DOMAIN g \cup groups |->
        IF l \in groups THEN IncSeries(g, l, value(l))[l] ELSE g[l]]

\* parse_logs, the DataFrame, the filter, to_numeric, groupby and the loop.
\* Without a log, or with a log without rows, df has no QUIDDITY column and
\* df['QUIDDITY'] raises KeyError; to_numeric raises ValueError for a text
\* that is not a number.  No gauge is written before either.
sre_async_apex_execution_summary(resp, http) ==
    LET logs == parse_logs(resp, http)
        all == IF logs.some THEN logs.rows ELSE <<>>
        kept == {i \in 1..Len(all) : all[i].QUIDDITY \in valid_quiddities}
        raises == \/ all = <<>>
                  \/ \E i \in kept : ~IsNumber(all[i].RUN_TIME) \/ ~IsNumber(all[i].CPU_TIME)
        RUN_TIME == [i \in kept |-> int(all[i].RUN_TIME)]
        CPU_TIME == [i \in kept |-> int(all[i].CPU_TIME)]
        groups == {<<all[i].ENTRY_POINT, all[i].QUIDDITY>> : i \in kept}
        Of(l) == {i \in kept : <<all[i].ENTRY_POINT, all[i].QUIDDITY>> = l}
        count(l) == Cardinality(Of(l))
        gt_5s(l) == Cardinality({i \in Of(l) : RUN_TIME[i] > 5000})
        gt_10s(l) == Cardinality({i \in Of(l) : RUN_TIME[i] > 10000})
        total_runtime(l) == SumOver(RUN_TIME, Of(l))
        avg_runtime(l) == Quotient(SumOver(RUN_TIME, Of(l)), count(l))
        max_runtime(l) == MaxOver(RUN_TIME, Of(l))
        avg_cputime(l) == Quotient(SumOver(CPU_TIME, Of(l)), count(l))
        max_cputime(l) == MaxOver(CPU_TIME, Of(l))
        gt_5s_percentage(l) == Quotient(gt_5s(l) * 100, count(l))
    IN /\ gauges' =
            IF raises THEN gauges
            ELSE [gauges EXCEPT
                    !["apex_entry_point_count"] = IncGroups(@, groups, count),
                    !["apex_avg_runtime"] = SetGroups(@, groups, avg_runtime),
                    !["apex_max_runtime"] = SetGroups(@, groups, max_runtime),
                    !["apex_total_runtime"] = SetGroups(@, groups, total_runtime),
                    !["apex_avg_cputime"] = SetGroups(@, groups, avg_cputime),
                    !["apex_max_cputime"] = SetGroups(@, groups, max_cputime),
                    !["apex_runtime_gt_5s_count"] = IncGroups(@, groups, gt_5s),
                    !["apex_runtime_gt_10s_count"] = IncGroups(@, groups, gt_10s),
                    !["apex_runtime_gt_5s_percentage"] =
                        SetGroups(@, groups, gt_5s_percentage)]
       /\ log' = logs.log \o
                 (IF raises THEN <<LogLine("error", "async_apex_execution_summary")>>
                  ELSE <<>>)
       /\ last' = Ran("sre_async_apex_execution_summary", resp, http, FALSE)
       /\ prev' = gauges

\* One run of the summary in a process that makes MaxDispatch runs.
ApexSummaryRun(resp, http) ==
    /\ fired < MaxDispatch
    /\ fired' = fired + 1
    /\ sre_async_apex_execution_summary(resp, http)
    /\ UNCHANGED <<callVars, pc, httpStarts, environ, started, jobs, executing>>

\* ------------------- sre/.../sfmon-service/salesforce_monitoring.py: main
\* The calls of one pass of the while loop, in the order of the try block.
CycleCalls ==
    <<"get_salesforce_connection_url", "monitor_salesforce_limits",
      "get_salesforce_licenses", "get_salesforce_instance", "get_deployment_status",
      "get_salesforce_ept", "monitor_login_events", "geolocation",
      "async_apex_job_status", "monitor_apex_execution", "apex_cpu_timeout_errors">>

\* Calls with statements outside a try block that catches Exception: the CLI
\* login, sf.limits() and the queries of the collectors that do not guard them.
CycleRaisers ==
    {"get_salesforce_connection_url", "monitor_salesforce_limits",
     "get_salesforce_licenses", "get_salesforce_instance", "get_deployment_status",
     "get_salesforce_ept", "async_apex_job_status"}

SleepLoopStart ==
    /\ pc = "main"
    /\ httpStarts' = httpStarts + 1
    /\ pc' = "cycle"
    /\ UNCHANGED <<collectorVars, callVars, environ, started, jobs, fired, executing>>

\* The next call of the try block.  When it raises, the except clause of
\* main logs the error and the pass is over.
CycleStep(raises) ==
    LET name == CycleCalls[Len(started) + 1]
    IN /\ pc = "cycle"
       /\ raises => name \in CycleRaisers
       /\ started' = Append(started, name)
       /\ last' = Ran(name, QueryOk(<<>>), NoAux, raises)
       /\ log' = log \o (IF raises THEN <<LogLine("error", "main")>> ELSE <<>>)
       /\ pc' = IF raises \/ Len(started') = Len(CycleCalls) THEN "sleep" ELSE "cycle"
       /\ prev' = gauges
       /\ UNCHANGED <<gauges, callVars, httpStarts, environ, jobs, fired, executing>>

\* time.sleep(1800), then the next pass.
CycleSleep ==
    /\ pc = "sleep"
    /\ fired < MaxDispatch
    /\ fired' = fired + 1
    /\ started' = <<>>
    /\ pc' = "cycle"
    /\ UNCHANGED <<collectorVars, callVars, httpStarts, environ, jobs, executing>>

\* --------------------------- sre/.../sfmon-service/sbx/overall_sf_org.py
SbxOrgs == {"FullQA", "FullQAB", "Dev"}

\* The pod fetch_pod reads from the Organization row of each sandbox.
SbxPods == [org \in SbxOrgs |-> IF org = "FullQAB" THEN NA10 ELSE NA1]

SbxStatus(Elements) == {r \in StatusResponses(Elements) : Len(r.rows) <= 1}

\* found[org]: the Organization query of the org returned a row.
SbxIncidentAnswers(found) ==
    IF \A org \in SbxOrgs : found[org] THEN SbxStatus(Incidents) ELSE {NoAux}

SbxMaintenanceAnswers(found) ==
    IF \A org \in SbxOrgs : found[org] THEN SbxStatus(Maintenances) ELSE {NoAux}

\* {v: k for k, v in pod_map.items()}: the last org of a pod wins.
pod_map_reversed(pod) ==
    IF SbxPods["Dev"] = pod THEN "Dev"
    ELSE IF SbxPods["FullQAB"] = pod THEN "FullQAB"
    ELSE IF SbxPods["FullQA"] = pod THEN "FullQA"
    ELSE PyNone

RECURSIVE SbxKeysLoop(_, _, _)
SbxKeysLoop(g, m, keys) ==
    IF keys = <<>> THEN g
    ELSE SbxKeysLoop(
             IF /\ pod_map_reversed(Head(keys)) # PyNone
                /\ m.eventStatus \in {"scheduled", "in progress"}
             THEN SetSeries(g, <<pod_map_reversed(Head(keys)), m.id, m.eventStatus,
                                 m.plannedStartTime, m.plannedEndTime>>, 1)
             ELSE g,
             m, Tail(keys))

RECURSIVE SbxMaintenanceLoop(_, _)
SbxMaintenanceLoop(g, data) ==
    IF data = <<>> THEN g
    ELSE SbxMaintenanceLoop(SbxKeysLoop(g, Head(data), Head(data).instanceKeys), Tail(data))

sbx_get_salesforce_maintenances(g, status) ==
    IF status.exc # "none"
    THEN [gauge |-> g, log |-> <<LogLine("error", "get_salesforce_maintenances")>>]
    ELSE [gauge |-> SbxMaintenanceLoop(Clear(g), status.rows), log |-> <<>>]

\* fetch_pod indexes result[0]: without a row it raises IndexError, and the
\* three calls that build pod_map stand before the first try statement.
sbx_get_salesforce_instance(found, incidents, maintenances) ==
    LET raises == \E org \in SbxOrgs : ~found[org]
        dev == get_salesforce_incidents(Clear(gauges["salesforce_incidents"]),
                                        "Dev", SbxPods["Dev"], incidents)
        fqa == get_salesforce_incidents(dev.gauge, "FullQA", SbxPods["FullQA"], incidents)
        fqab == get_salesforce_incidents(fqa.gauge, "FullQAB", SbxPods["FullQAB"],
                                         incidents)
        mnt == sbx_get_salesforce_maintenances(gauges["salesforce_maintenance"],
                                               maintenances)
    IN /\ IF raises
          THEN /\ gauges' = gauges
               /\ log' = <<>>
          ELSE /\ gauges' = [gauges EXCEPT !["salesforce_incidents"] = fqab.gauge,
                                           !["salesforce_maintenance"] = mnt.gauge]
               /\ log' = dev.log \o fqa.log \o fqab.log \o mnt.log
       /\ last' = Ran("sbx_get_salesforce_instance", found, incidents, raises)
       /\ prev' = gauges

\* ------------------- sre/.../sfmon-service/sbx/salesforce_monitoring.py
\* The jobs of schedule_tasks, every one of them every(5).minutes.
SbxJobs ==
    <<"get_salesforce_instance", "monitor_payment_gateway_status",
      "monitor_payment_method_status", "monitor_payment_gateway_status_fqab",
      "monitor_payment_method_status_fqab", "track_email_deliverability_change",
      "track_contacts_with_valid_emails">>

\* start_http_server and the three logins; a login that fails raises.
SbxMain(ok) ==
    /\ pc = "main"
    /\ httpStarts' = httpStarts + 1
    /\ pc' = IF ok THEN "startup" ELSE "crashed"
    /\ UNCHANGED <<collectorVars, callVars, environ, started, jobs, fired, executing>>

\* schedule_tasks: every task once, then the registrations.  The tasks after
\* get_salesforce_instance catch every exception and their gauges are not
\* carried here.
SbxScheduleTasks(found, incidents, maintenances) ==
    /\ pc = "startup"
    /\ sbx_get_salesforce_instance(found, incidents, maintenances)
    /\ pc' = IF last'.raised THEN "crashed" ELSE "run_pending"
    /\ jobs' = IF last'.raised THEN jobs ELSE SbxJobs
    /\ started' = IF last'.raised THEN <<SbxJobs[1]>> ELSE SbxJobs
    /\ UNCHANGED <<callVars, httpStarts, environ, fired, executing>>

\* schedule.run_pending(): the due jobs, each called in turn.  The library
\* calls job.run() without a try statement, so whatever a job raises leaves
\* run_pending and, main having no try statement either, ends main.
SbxRunPending(due, found, incidents, maintenances) ==
    /\ pc = "run_pending"
    /\ IF due
       THEN /\ fired < MaxDispatch
            /\ fired' = fired + 1
            /\ sbx_get_salesforce_instance(found, incidents, maintenances)
            /\ pc' = IF last'.raised THEN "crashed" ELSE "sleep"
            /\ started' = IF last'.raised THEN <<SbxJobs[1]>> ELSE SbxJobs
       ELSE /\ pc' = "sleep"
            /\ started' = <<>>
            /\ UNCHANGED <<collectorVars, fired>>
    /\ UNCHANGED <<callVars, httpStarts, environ, jobs, executing>>

\* time.sleep(300)
SbxSleep ==
    /\ pc = "sleep"
    /\ pc' = "run_pending"
    /\ UNCHANGED <<collectorVars, callVars, httpStarts, environ, started, jobs, fired,
                   executing>>

\* ------------------------------------------- salesforce_monitoring.py: schedules
K_minute == <<"m", "i", "n", "u", "t", "e">>
K_hour == <<"h", "o", "u", "r">>
K_day == <<"d", "a", "y">>
K_month == <<"m", "o", "n", "t", "h">>
K_day_of_week == <<"d", "a", "y", "_", "o", "f", "_", "w", "e", "e", "k">>

MinuteOnly(m) == DictPut(EmptyDict, K_minute, m)
HourMinute(h, m) == DictPut(DictPut(EmptyDict, K_hour, h), K_minute, m)

\* A schedule, or None.
NoSchedule == [some |-> FALSE, val |-> EmptyDict]
Some(d) == [some |-> TRUE, val |-> d]

\* Python truthiness of a schedule: None and the empty dict are false.
Truthy(schedule) == schedule.some /\ DOMAIN schedule.val # {}

\* The five cron positions read as hour first.
CronFieldKeysHourFirst == <<K_hour, K_minute, K_day, K_month, K_day_of_week>>

CronFieldKeys == <<K_minute, K_hour, K_day, K_month, K_day_of_week>>

RECURSIVE CronDict(_, _)
CronDict(cron_parts, n) ==
    IF n = 0 THEN EmptyDict
    ELSE IF cron_parts[n] # <<"*">>
    THEN DictPut(CronDict(cron_parts, n - 1), CronFieldKeys[n], cron_parts[n])
    ELSE CronDict(cron_parts, n - 1)

RECURSIVE ParamDict(_, _)
ParamDict(parts, params) ==
    IF parts = <<>> THEN params
    ELSE LET part == Head(parts)
             eq == Find(part, 1, {"="}, TRUE)
         IN IF HasChar(part, "=")
            THEN ParamDict(Tail(parts),
                           DictPut(params, strip(SubSeq(part, 1, eq - 1)),
                                   strip(SubSeq(part, eq + 1, Len(part)))))
            ELSE ParamDict(Tail(parts), params)

SimpleMinuteChars == Digits \cup {"*", "/", ","}

\* parse_cron_schedule; warned tells whether the "could not parse" warning
\* was logged.
Parsed(d) == [some |-> TRUE, val |-> d, warned |-> FALSE]
ParsedNone(warned) == [some |-> FALSE, val |-> EmptyDict, warned |-> warned]

parse_cron_schedule(schedule_str) ==
    IF schedule_str = <<>> \/ lower(schedule_str) \in {<<"d", "i", "s", "a", "b", "l", "e", "d">>, <<"n", "o", "n", "e">>}
    THEN ParsedNone(FALSE)
    ELSE LET s == strip(schedule_str)
             json == json_loads(s)
             cron_parts == split(s)
             params == ParamDict(split_on(s, ","), EmptyDict)
         IN IF json.ok THEN Parsed(json.val)
            ELSE IF Len(cron_parts) = 5
            THEN IF DOMAIN CronDict(cron_parts, 5) # {}
                 THEN Parsed(CronDict(cron_parts, 5)) ELSE ParsedNone(FALSE)
            ELSE IF HasChar(s, "=") /\ DOMAIN params # {} THEN Parsed(params)
            ELSE IF s # <<>> /\ \A i \in 1..Len(s) : s[i] \in SimpleMinuteChars
            THEN Parsed(MinuteOnly(s))
            ELSE ParsedNone(TRUE)

\* os.getenv('SCHEDULE_<JOB_ID>'): the variable is unset, or holds a text.
Unset == [set |-> FALSE, text |-> <<>>]
EnvValue(text) == [set |-> TRUE, text |-> text]

\* get_schedule_config falling back to the default when the override does
\* not give a schedule.
get_schedule_config_fallback(job_id, default_schedule, env_value) ==
    LET parsed == parse_cron_schedule(env_value.text)
    IN IF env_value.set /\ env_value.text # <<>> /\ parsed.some
       THEN [schedule |-> Some(parsed.val),
             log |-> <<LogLine("info", "get_schedule_config")>>]
       ELSE [schedule |-> default_schedule, log |-> <<>>]

get_schedule_config(job_id, default_schedule, env_value) ==
    LET parsed == parse_cron_schedule(env_value.text)
    IN IF env_value.set /\ env_value.text # <<>>
       THEN IF ~parsed.some
            THEN [schedule |-> NoSchedule,
                  log |-> (IF parsed.warned
                           THEN <<LogLine("warning", "parse_cron_schedule")>> ELSE <<>>)
                          \o <<LogLine("info", "get_schedule_config")>>]
            ELSE [schedule |-> Some(parsed.val),
                  log |-> <<LogLine("info", "get_schedule_config")>>]
       ELSE [schedule |-> default_schedule, log |-> <<>>]

\* ------------------------------------------------ salesforce_monitoring.py: main
Job(id, default_schedule) == [id |-> id, default |-> default_schedule]

\* The calls of the startup pass of schedule_tasks, in textual order.
StartupOrder ==
    <<
      "monitor_salesforce_limits", "monitor_apex_flex_queue",
      "get_salesforce_instance", "get_salesforce_licenses",
      "daily_analyse_bulk_api", "hourly_analyse_bulk_api",
      "get_salesforce_ept_and_apt", "monitor_login_events",
      "async_apex_job_status", "monitor_apex_execution_time",
      "async_apex_execution_summary", "concurrent_apex_errors",
      "expose_concurrent_long_running_apex_errors", "expose_apex_exception_metrics",
      "hourly_observe_user_querying_large_records", "monitor_org_wide_sharing_settings",
      "expose_suspicious_records", "get_deployment_status",
      "geolocation", "monitor_integration_user_passwords",
      "unassigned_permission_sets", "perm_sets_limited_users",
      "profile_assignment_under5", "profile_no_active_users",
      "apex_classes_api_version", "apex_triggers_api_version",
      "security_health_check", "salesforce_health_risks",
      "workflow_rules_monitoring", "dormant_salesforce_users",
      "dormant_portal_users", "total_queues_per_object",
      "queues_with_no_members", "queues_with_zero_open_cases",
      "public_groups_with_no_members", "dashboards_with_inactive_users"
    >>

\* The get_schedule_config / add_job blocks of schedule_tasks, in textual order.
JobTable ==
    <<
      Job("monitor_salesforce_limits", Some(MinuteOnly(<<"*", "/", "5">>))),
      Job("get_salesforce_instance", Some(MinuteOnly(<<"*", "/", "5">>))),
      Job("monitor_apex_flex_queue", Some(MinuteOnly(<<"*", "/", "5">>))),
      Job("daily_analyse_bulk_api", Some(HourMinute(<<"7">>, <<"3", "0">>))),
      Job("get_deployment_status", Some(HourMinute(<<"7">>, <<"4", "5">>))),
      Job("geolocation", Some(HourMinute(<<"8">>, <<"0">>))),
      Job("monitor_org_wide_sharing_settings", Some(HourMinute(<<"8">>, <<"4", "5">>))),
      Job("monitor_integration_user_passwords", Some(HourMinute(<<"9">>, <<"0">>))),
      Job("unassigned_permission_sets", Some(HourMinute(<<"9">>, <<"1", "5">>))),
      Job("perm_sets_limited_users", Some(HourMinute(<<"9">>, <<"3", "0">>))),
      Job("profile_assignment_under5", Some(HourMinute(<<"9">>, <<"4", "5">>))),
      Job("profile_no_active_users", Some(HourMinute(<<"1", "0">>, <<"0">>))),
      Job("apex_classes_api_version", Some(HourMinute(<<"1", "0">>, <<"1", "5">>))),
      Job("apex_triggers_api_version", Some(HourMinute(<<"1", "0">>, <<"3", "0">>))),
      Job("security_health_check", Some(HourMinute(<<"1", "0">>, <<"4", "5">>))),
      Job("salesforce_health_risks", Some(HourMinute(<<"1", "1">>, <<"0">>))),
      Job("workflow_rules_monitoring", Some(HourMinute(<<"1", "1">>, <<"1", "5">>))),
      Job("dormant_salesforce_users", Some(HourMinute(<<"1", "1">>, <<"3", "0">>))),
      Job("dormant_portal_users", Some(HourMinute(<<"1", "1">>, <<"4", "5">>))),
      Job("total_queues_per_object", Some(HourMinute(<<"1", "2">>, <<"0">>))),
      Job("queues_with_no_members", Some(HourMinute(<<"1", "2">>, <<"1", "5">>))),
      Job("queues_with_zero_open_cases", Some(HourMinute(<<"1", "2">>, <<"3", "0">>))),
      Job("public_groups_with_no_members", Some(HourMinute(<<"1", "2">>, <<"4", "5">>))),
      Job("dashboards_with_inactive_users", Some(HourMinute(<<"1", "3">>, <<"0">>))),
      Job("get_salesforce_ept_and_apt", Some(HourMinute(<<"6">>, <<"0">>))),
      Job("monitor_login_events", Some(HourMinute(<<"6">>, <<"1", "5">>))),
      Job("async_apex_job_status", Some(HourMinute(<<"6">>, <<"3", "0">>))),
      Job("monitor_apex_execution_time", Some(HourMinute(<<"6">>, <<"4", "5">>))),
      Job("async_apex_execution_summary", Some(HourMinute(<<"7">>, <<"0">>))),
      Job("concurrent_apex_errors", Some(HourMinute(<<"7">>, <<"1", "5">>))),
      Job("expose_apex_exception_metrics", Some(HourMinute(<<"7">>, <<"3", "0">>))),
      Job("hourly_analyse_bulk_api", Some(MinuteOnly(<<"0">>))),
      Job("get_salesforce_licenses", Some(MinuteOnly(<<"1", "0", ",", "5", "0">>))),
      Job("hourly_observe_user_querying_large_records", Some(MinuteOnly(<<"2", "0">>))),
      Job("hourly_report_export_records", Some(MinuteOnly(<<"4", "0">>))),
      Job("expose_suspicious_records", NoSchedule)
    >>

JobIds == {JobTable[i].id : i \in 1..Len(JobTable)}

Collectors == JobIds \cup {StartupOrder[i] : i \in 1..Len(StartupOrder)}

DetailedCollectors ==
    {"monitor_apex_flex_queue", "get_salesforce_instance", "get_salesforce_licenses",
     "monitor_login_events", "expose_suspicious_records", "get_deployment_status",
     "unassigned_permission_sets", "dashboards_with_inactive_users",
     "monitor_salesforce_limits", "hourly_observe_user_querying_large_records",
     "hourly_report_export_records"}

\* A collector whose gauges are not carried here: it runs and returns.
other_collector(name) ==
    /\ name \in Collectors \ DetailedCollectors
    /\ gauges' = gauges
    /\ log' = <<>>
    /\ last' = Ran(name, QueryOk(<<>>), NoAux, FALSE)
    /\ prev' = gauges

\* The process environment: SCHEDULE_<JOB_ID> for every job.
NoOverrides == [j \in JobIds |-> Unset]

OverridableJobs == {"monitor_salesforce_limits", "expose_suspicious_records"}

ScheduleTexts ==
    {<<"d", "i", "s", "a", "b", "l", "e", "d">>,
     <<"*", "/", "5", " ", "*", " ", "*", " ", "*", " ", "*">>,
     <<"h", "o", "u", "r", "=", "7", ",", "m", "i", "n", "u", "t", "e", "=", "3", "0">>,
     <<"*", "/", "1", "0">>,
     <<"e", "v", "e", "r", "y", " ", "d", "a", "y">>,
     <<"*", " ", "*", " ", "*", " ", "*", " ", "*">>,
     <<"w", "h", "e", "n", "=", "n", "o", "w">>,
     <<"N", "O", "N", "E">>}

EnvConfigs ==
    {NoOverrides}
    \cup {[NoOverrides EXCEPT ![j] = EnvValue(t)] : j \in OverridableJobs, t \in ScheduleTexts}

\* CronTrigger(**schedule) raises on an unknown field name and on a value that
\* is not a cron expression.
CronTriggerFields ==
    {K_minute, K_hour, K_day, K_month, K_day_of_week,
     <<"y", "e", "a", "r">>, <<"w", "e", "e", "k">>, <<"s", "e", "c", "o", "n", "d">>}

CronExpressionChars == Digits \cup {"*", "/", ",", "-"}

CronTriggerRaises(params) ==
    \E k \in DOMAIN params :
        \/ k \notin CronTriggerFields
        \/ params[k] = <<>>
        \/ \E i \in 1..Len(params[k]) : params[k][i] \notin CronExpressionChars

\* The second half of schedule_tasks: one get_schedule_config and, for a
\* truthy schedule, one add_job per entry of the table.
RECURSIVE AddJobs(_, _, _)
AddJobs(table, overrides, acc) ==
    IF table = <<>> THEN acc
    ELSE LET job == Head(table)
             cfg == get_schedule_config(job.id, job.default, overrides[job.id])
             logged == acc.log \o cfg.log
         IN IF ~Truthy(cfg.schedule)
            THEN AddJobs(Tail(table), overrides, [acc EXCEPT !.log = logged])
            ELSE IF CronTriggerRaises(cfg.schedule.val)
            THEN [jobs |-> acc.jobs, log |-> logged, raised |-> TRUE]
            ELSE AddJobs(Tail(table), overrides,
                         [jobs |-> Append(acc.jobs, [id |-> job.id, trigger |-> cfg.schedule.val]),
                          log |-> logged, raised |-> FALSE])

\* The answers of an org in which every query finds one record.
Healthy(Records) == QueryOk(<<CHOOSE r \in Records : TRUE>>)

TimedOut == [exc |-> "Timeout", hasRecords |-> FALSE, records |-> <<>>]

HealthyStatus(Elements) ==
    [exc |-> "none", empty |-> FALSE, hasUserId |-> FALSE,
     rows |-> <<CHOOSE e \in Elements : TRUE>>]

HealthyLog ==
    [exc |-> "none", empty |-> FALSE, hasUserId |-> TRUE,
     rows |-> <<CHOOSE r \in LoginRows : TRUE>>]

HealthyLimits ==
    [exc |-> "none",
     limits |-> <<[name |-> "DailyApiRequests",
                   data |-> [ok |-> TRUE, Max |-> 100, Remaining |-> 40]]>>]

HealthyApiLog == [exc |-> "none", empty |-> FALSE, hasUserId |-> TRUE, rows |-> ThreeUserLog]

HealthyReportLog ==
    [exc |-> "none", empty |-> FALSE, hasUserId |-> TRUE,
     rows |-> <<ReportRow("u1", "t1", Field(<<"/">> \o ReportUri))>>]

\* An org in which the User query finds every user.
KnownUsers == CHOOSE d \in UserDirectories : \A u \in UserIds : d[u].records # <<>>

\* One call of the collector of that name, as main and the scheduler make it.
RunCollector(name) ==
    \/ /\ name = "monitor_apex_flex_queue"
       /\ \E resp \in {Healthy(FlexRecords), TimedOut} : monitor_apex_flex_queue(resp)
    \/ /\ name = "get_salesforce_instance"
       /\ get_salesforce_instance(Healthy(OrganizationRecords), HealthyStatus(Incidents),
                                  HealthyStatus(Maintenances))
    \/ /\ name = "get_salesforce_licenses"
       /\ \E e \in EntitlementRecords :
            get_salesforce_licenses(Healthy(UserLicenseRecords),
                                    Healthy(PermSetLicenseRecords), QueryOk(<<e>>))
    \/ /\ name = "monitor_login_events"
       /\ monitor_login_events(Healthy(LogFileRecords), HealthyLog)
    \/ /\ name = "expose_suspicious_records"
       /\ expose_suspicious_records(Healthy(AuditRecords))
    \/ /\ name = "get_deployment_status"
       /\ get_deployment_status(Healthy(DeployRecords))
    \/ /\ name = "unassigned_permission_sets"
       /\ unassigned_permission_sets(Healthy(PermSetRecords))
    \/ /\ name = "dashboards_with_inactive_users"
       /\ dashboards_with_inactive_users(Healthy(DashboardRecords))
    \/ /\ name = "monitor_salesforce_limits"
       /\ monitor_salesforce_limits(HealthyLimits)
    \/ /\ name = "hourly_observe_user_querying_large_records"
       /\ hourly_observe_user_querying_large_records(Healthy(LogFileRecords),
              HealthyApiLog, KnownUsers)
    \/ /\ name = "hourly_report_export_records"
       /\ hourly_report_export_records(Healthy(LogFileRecords), HealthyReportLog,
              KnownUsers, QueryOk(<<[Name |-> "Pipeline", ReportTypeApiName |-> "Opportunity"]>>))
    \/ other_collector(name)

\* main: start_http_server(metrics_port).  int() of a METRICS_PORT that is
\* not a number and a port that cannot be bound raise, which ends main.
StartHttpServer(ok) ==
    /\ pc = "main"
    /\ httpStarts' = IF ok THEN httpStarts + 1 ELSE httpStarts
    /\ pc' = IF ok THEN "connect" ELSE "crashed"
    /\ UNCHANGED <<callVars, executing, collectorVars, environ, started, jobs, fired>>

\* SALESFORCE_AUTH_URL: unset, empty or a URL.
AuthUrls == {PyNone, "", "force://id:secret:token@host"}

\* What the sf command does: it is not installed, the login exits non-zero,
\* the display exits non-zero, prints no JSON or prints JSON without a field.
CliOutcomes ==
    {"ok", "FileNotFoundError", "LoginFailed", "DisplayFailed", "JSONDecodeError", "KeyError"}

Connection(raised, commands, temp_written, errors) ==
    [raised |-> raised, commands |-> commands, temp_written |-> temp_written,
     temp_left |-> FALSE,
     log |-> [i \in 1..errors |-> LogLine("error", "get_salesforce_connection_url")]]

\* get_salesforce_connection_url with the test of url made after the login.
get_salesforce_connection_url_late_check(url, cli) ==
    IF cli = "FileNotFoundError" THEN Connection(TRUE, 0, FALSE, 0)
    ELSE IF cli = "LoginFailed" THEN Connection(TRUE, 1, TRUE, 3)
    ELSE IF url \in {PyNone, ""} THEN Connection(TRUE, 1, TRUE, 0)
    ELSE IF cli = "DisplayFailed" THEN Connection(TRUE, 2, TRUE, 3)
    ELSE IF cli = "JSONDecodeError" THEN Connection(TRUE, 2, TRUE, 0)
    ELSE IF cli = "KeyError" THEN Connection(TRUE, 2, TRUE, 1)
    ELSE Connection(FALSE, 2, TRUE, 0)

\* connection_sf.py: get_salesforce_connection_url.  commands counts the
\* subprocess.run calls made, temp_written tells whether the temp file was
\* created; the finally clause always unlinks it.
get_salesforce_connection_url(url, cli) ==
    IF url \in {PyNone, ""} THEN Connection(TRUE, 0, FALSE, 0)
    ELSE IF cli = "FileNotFoundError" THEN Connection(TRUE, 0, FALSE, 0)
    ELSE IF cli = "LoginFailed" THEN Connection(TRUE, 1, TRUE, 3)
    ELSE IF cli = "DisplayFailed" THEN Connection(TRUE, 2, TRUE, 3)
    ELSE IF cli = "JSONDecodeError" THEN Connection(TRUE, 2, TRUE, 0)
    ELSE IF cli = "KeyError" THEN Connection(TRUE, 2, TRUE, 1)
    ELSE Connection(FALSE, 2, TRUE, 0)

\* main with the connection made ahead of start_http_server.
ConnectBeforeServer(url, cli) ==
    LET sf == get_salesforce_connection_url(url, cli)
    IN /\ pc \in {"main", "connect"}
       /\ pc' = IF sf.raised THEN "crashed" ELSE "startup"
       /\ log' = sf.log
       /\ ret' = [fn |-> "get_salesforce_connection_url", arg |-> [url |-> url, cli |-> cli],
                  val |-> [commands |-> sf.commands, temp_written |-> sf.temp_written,
                           temp_left |-> sf.temp_left],
                  raised |-> sf.raised]
       /\ UNCHANGED <<cached_config, config_file_has_schedules, executing, gauges, last,
                      prev, httpStarts, environ, started, jobs, fired>>

\* main: get_salesforce_connection_url(url=os.getenv('SALESFORCE_AUTH_URL')).
\* What it raises ends main.
Connect(url, cli) ==
    LET sf == get_salesforce_connection_url(url, cli)
    IN /\ pc = "connect"
       /\ pc' = IF sf.raised THEN "crashed" ELSE "startup"
       /\ log' = sf.log
       /\ ret' = [fn |-> "get_salesforce_connection_url", arg |-> [url |-> url, cli |-> cli],
                  val |-> [commands |-> sf.commands, temp_written |-> sf.temp_written,
                           temp_left |-> sf.temp_left],
                  raised |-> sf.raised]
       /\ UNCHANGED <<cached_config, config_file_has_schedules, executing, gauges, last,
                      prev, httpStarts, environ, started, jobs, fired>>

\* schedule_tasks: the next call of the startup pass.  A collector that raises
\* ends schedule_tasks and main with it.
StartupCall ==
    /\ pc = "startup"
    /\ LET name == StartupOrder[Len(started) + 1]
       IN /\ RunCollector(name)
          /\ started' = Append(started, name)
          /\ pc' = IF last'.raised THEN "crashed"
                   ELSE IF Len(started) + 1 = Len(StartupOrder) THEN "register"
                   ELSE "startup"
    /\ UNCHANGED <<callVars, executing, httpStarts, environ, jobs, fired>>

\* schedule_tasks: the registrations.
RegisterJobs ==
    /\ pc = "register"
    /\ LET done == AddJobs(JobTable, environ, [jobs |-> <<>>, log |-> <<>>, raised |-> FALSE])
       IN /\ jobs' = done.jobs
          /\ log' = done.log
          /\ pc' = IF done.raised THEN "crashed" ELSE "start"
    /\ UNCHANGED <<callVars, executing, gauges, last, prev, httpStarts, environ, started, fired>>

\* main: scheduler.start()
SchedulerStart ==
    /\ pc = "start"
    /\ pc' = "running"
    /\ UNCHANGED <<callVars, executing, collectorVars, httpStarts, environ, started, jobs, fired>>

\* Whether one item of a cron expression ("*", "*/n", "n", "a-b") admits v.
CronItemMatches(item, v) ==
    LET step == split_on(item, "/")
        range == split_on(step[1], "-")
        inRange == \/ step[1] = <<"*">>
                   \/ Len(range) = 1 /\ IsNumber(range[1]) /\
                        (IF Len(step) = 1 THEN v = int(range[1]) ELSE v >= int(range[1]))
                   \/ Len(range) = 2 /\ IsNumber(range[1]) /\ IsNumber(range[2]) /\
                        int(range[1]) <= v /\ v <= int(range[2])
        first == IF Len(range) >= 1 /\ IsNumber(range[1]) THEN int(range[1]) ELSE 0
    IN /\ inRange
       /\ Len(step) = 2 => (IsNumber(step[2]) /\ int(step[2]) > 0 /\
                            (v - first) % int(step[2]) = 0)

\* A cron expression is a comma-separated list of items.
CronMatches(expr, v) ==
    LET items == split_on(expr, ",")
    IN \E i \in 1..Len(items) : CronItemMatches(items[i], v)

\* CronTrigger fills the fields it was not given: "*" for a field more
\* significant than a given one, the minimum for the fields after the last
\* given one.
K_second == <<"s", "e", "c", "o", "n", "d">>

HourExpr(trigger) ==
    IF K_hour \in DOMAIN trigger THEN trigger[K_hour]
    ELSE IF K_minute \in DOMAIN trigger \/ K_second \in DOMAIN trigger THEN <<"*">>
    ELSE <<"0">>

MinuteExpr(trigger) ==
    IF K_minute \in DOMAIN trigger THEN trigger[K_minute]
    ELSE IF K_second \in DOMAIN trigger THEN <<"*">>
    ELSE <<"0">>

\* Times of day at which the scheduler wakes; the day is one that the
\* trigger's date fields admit.
Time(hour, minute) == [hour |-> hour, minute |-> minute]

Times == {Time(0, 5), Time(7, 30)}

Due(trigger, t) ==
    /\ CronMatches(HourExpr(trigger), t.hour)
    /\ CronMatches(MinuteExpr(trigger), t.minute)

DueJobs(t) == {j \in 1..Len(jobs) : Due(jobs[j].trigger, t)}

\* BlockingScheduler() is built without executors: the scheduler's loop
\* submits every due job to its default executor, a pool of worker threads,
\* and goes back to waiting.  A job that is still running is not submitted a
\* second time (max_instances is 1).
Tick(t) ==
    /\ pc = "running"
    /\ fired < MaxDispatch
    /\ DueJobs(t) # {}
    /\ executing' = executing \cup DueJobs(t)
    /\ fired' = fired + 1
    /\ UNCHANGED <<callVars, collectorVars, pc, httpStarts, environ, started, jobs>>

\* A worker thread runs the job's func to its end; what the func raises is
\* caught and logged by the executor.
Complete(j) ==
    /\ pc \in {"running", "shutdown"}
    /\ j \in executing
    /\ RunCollector(jobs[j].id)
    /\ executing' = executing \ {j}
    /\ UNCHANGED <<callVars, pc, httpStarts, environ, started, jobs, fired>>

\* main: except KeyboardInterrupt: scheduler.shutdown()
KeyboardInterrupt ==
    /\ pc = "running"
    /\ pc' = "shutdown"
    /\ UNCHANGED <<callVars, executing, collectorVars, httpStarts, environ, started, jobs, fired>>

\* -------------------------------------------------------------------- config.py
\* One call of parse_cron_schedule (salesforce_monitoring.py and config.py
\* carry the same function).
ParseCall(schedule_str) ==
    LET parsed == parse_cron_schedule(schedule_str)
    IN /\ ret' = [fn |-> "parse_cron_schedule", arg |-> schedule_str, val |-> parsed,
                  raised |-> FALSE]
       /\ log' = IF parsed.warned THEN <<LogLine("warning", "parse_cron_schedule")>> ELSE <<>>
       /\ UNCHANGED <<gauges, last, prev, schedulerVars, cached_config,
                      config_file_has_schedules>>

\* Schedule strings: five-field cron lines, and the other accepted formats.
CronFieldSamples == {<<"*">>, <<"*", "/", "5">>, <<"7">>}

CronLines ==
    {f1 \o <<" ">> \o f2 \o <<" ">> \o f3 \o <<" ">> \o f4 \o <<" ">> \o f5 :
        f1 \in CronFieldSamples, f2 \in CronFieldSamples,
        f3 \in CronFieldSamples, f4 \in {<<"*">>, <<"1">>}, f5 \in {<<"*">>, <<"1">>}}

ScheduleStrings ==
    CronLines \cup ScheduleTexts
    \cup {<<"*", "/", "5">>, <<"1", "0", ",", "5", "0">>, <<" ", "h", "o", "u", "r", " ", "=", " ", "7", " ", ",", " ", "m", "i", "n", "u", "t", "e", " ", "=", " ", "3", "0", " ">>, <<"{", "\"", "m", "i", "n", "u", "t", "e", "\"", ":", " ", "\"", "*", "/", "5", "\"", "}">>, <<"{", "m", "i", "n", "u", "t", "e", "}">>, <<>>}

\* The config file at CONFIG_FILE_PATH: absent, not JSON, or an object whose
\* 'schedules' member maps job ids to schedule strings.
MissingFile == [exists |-> FALSE, valid |-> FALSE, schedules |-> EmptyDict]
BrokenFile == [exists |-> TRUE, valid |-> FALSE, schedules |-> EmptyDict]
ConfigFile(schedules) == [exists |-> TRUE, valid |-> TRUE, schedules |-> schedules]

ConfigJobIds == {<<"m", "o", "n", "i", "t", "o", "r", "_", "s", "a", "l", "e", "s", "f", "o", "r", "c", "e", "_", "l", "i", "m", "i", "t", "s">>, <<"g", "e", "t", "_", "s", "a", "l", "e", "s", "f", "o", "r", "c", "e", "_", "i", "n", "s", "t", "a", "n", "c", "e">>}

\* Keys as a config file may spell them.
ConfigKeys ==
    {<<"m", "o", "n", "i", "t", "o", "r", "_", "s", "a", "l", "e", "s", "f", "o", "r", "c", "e", "_", "l", "i", "m", "i", "t", "s">>,
     <<"G", "e", "t", "_", "S", "a", "l", "e", "s", "f", "o", "r", "c", "e", "_", "I", "n", "s", "t", "a", "n", "c", "e">>}

\* A value of the schedules map: a JSON string, or a JSON object.
JsonText(s) == [object |-> FALSE, text |-> s, members |-> EmptyDict]
JsonObject(d) == [object |-> TRUE, text |-> <<>>, members |-> d]

ConfigValues ==
    {JsonText(<<"d", "i", "s", "a", "b", "l", "e", "d">>), JsonText(<<"*", "/", "5">>),
     JsonText(<<"e", "v", "e", "r", "y", " ", "d", "a", "y">>),
     JsonObject(HourMinute(<<"7">>, <<"3", "0">>))}

\* The schedules maps: every value for the key spelt as the job id is, one
\* value for the key spelt otherwise.
ConfigSchedules ==
    {d \in UNION {[keys -> ConfigValues] : keys \in SUBSET ConfigKeys} :
        \A k \in DOMAIN d : k \notin ConfigJobIds => d[k] = JsonText(<<"*", "/", "5">>)}

ConfigFiles == {MissingFile, BrokenFile} \cup {ConfigFile(d) : d \in ConfigSchedules}

\* _cached_config is None until the first load_config.
NotLoaded == [loaded |-> FALSE, file |-> MissingFile, schedules |-> EmptyDict]

\* load_config that reads the file on every call.
load_config_uncached(force_reload, file) ==
    IF ~file.exists
    THEN [config |-> [loaded |-> TRUE, file |-> file, schedules |-> EmptyDict],
          has_schedules |-> FALSE, log |-> <<LogLine("info", "load_config")>>]
    ELSE IF ~file.valid
    THEN [config |-> [loaded |-> TRUE, file |-> file, schedules |-> EmptyDict],
          has_schedules |-> FALSE, log |-> <<LogLine("error", "load_config")>>]
    ELSE [config |-> [loaded |-> TRUE, file |-> file, schedules |-> file.schedules],
          has_schedules |-> (DOMAIN file.schedules # {}),
          log |-> <<LogLine("info", "load_config")>>]

\* load_config: the cached config unless force_reload, else what the file gives.
load_config(force_reload, file) ==
    IF cached_config.loaded /\ ~force_reload
    THEN [config |-> cached_config, has_schedules |-> config_file_has_schedules, log |-> <<>>]
    ELSE IF ~file.exists
    THEN [config |-> [loaded |-> TRUE, file |-> file, schedules |-> EmptyDict],
          has_schedules |-> FALSE, log |-> <<LogLine("info", "load_config")>>]
    ELSE IF ~file.valid
    THEN [config |-> [loaded |-> TRUE, file |-> file, schedules |-> EmptyDict],
          has_schedules |-> FALSE, log |-> <<LogLine("error", "load_config")>>]
    ELSE [config |-> [loaded |-> TRUE, file |-> file, schedules |-> file.schedules],
          has_schedules |-> (DOMAIN file.schedules # {}),
          log |-> <<LogLine("info", "load_config")>>]

\* parse_cron_schedule(config_schedule).  A dict has no lower(): a non-empty
\* one raises AttributeError in the first test, an empty one is falsy.
ParseConfigValue(value) ==
    IF ~value.object THEN [parsed |-> parse_cron_schedule(value.text), raised |-> FALSE]
    ELSE [parsed |-> ParsedNone(FALSE), raised |-> DOMAIN value.members # {}]

\* get_schedule_from_config without the opt-in rule: a job the file does not
\* list keeps its default.
get_schedule_from_config_no_opt_in(job_id, default_schedule, file) ==
    LET loaded == load_config(FALSE, file)
        schedules == loaded.config.schedules
        parsed == ParseConfigValue(schedules[lower(job_id)]).parsed
    IN IF ~loaded.has_schedules \/ lower(job_id) \notin DOMAIN schedules
       THEN [schedule |-> default_schedule, loaded |-> loaded, log |-> loaded.log,
             raised |-> FALSE]
       ELSE IF ~parsed.some
       THEN [schedule |-> NoSchedule, loaded |-> loaded, log |-> loaded.log,
             raised |-> ParseConfigValue(schedules[lower(job_id)]).raised]
       ELSE [schedule |-> Some(parsed.val), loaded |-> loaded, log |-> loaded.log,
             raised |-> FALSE]

\* get_schedule_from_config; file is what load_config finds if it has to read.
get_schedule_from_config(job_id, default_schedule, file) ==
    LET loaded == load_config(FALSE, file)
        schedules == loaded.config.schedules
        called == ParseConfigValue(schedules[lower(job_id)])
        parsed == called.parsed
    IN IF ~loaded.has_schedules
       THEN [schedule |-> default_schedule, loaded |-> loaded, log |-> loaded.log,
             raised |-> FALSE]
       ELSE IF lower(job_id) \notin DOMAIN schedules
       THEN [schedule |-> NoSchedule, loaded |-> loaded, log |-> loaded.log,
             raised |-> FALSE]
       ELSE IF called.raised
       THEN [schedule |-> NoSchedule, loaded |-> loaded, log |-> loaded.log,
             raised |-> TRUE]
       ELSE IF ~parsed.some
       THEN [schedule |-> NoSchedule, loaded |-> loaded,
             log |-> loaded.log
                     \o (IF parsed.warned
                         THEN <<LogLine("warning", "parse_cron_schedule")>> ELSE <<>>)
                     \o <<LogLine("info", "get_schedule_from_config")>>,
             raised |-> FALSE]
       ELSE [schedule |-> Some(parsed.val), loaded |-> loaded,
             log |-> loaded.log \o <<LogLine("info", "get_schedule_from_config")>>,
             raised |-> FALSE]

\* One call of get_schedule_from_config; the call is remembered with the file
\* contents that load_config gave it.
ScheduleFromConfigCall(job_id, default_schedule, file) ==
    LET got == get_schedule_from_config(job_id, default_schedule, file)
    IN /\ ret' = [fn |-> "get_schedule_from_config",
                  arg |-> [job_id |-> job_id, default |-> default_schedule,
                           file |-> got.loaded.config.file],
                  val |-> got.schedule, raised |-> got.raised]
       /\ cached_config' = got.loaded.config
       /\ config_file_has_schedules' = got.loaded.has_schedules
       /\ log' = got.log
       /\ UNCHANGED <<gauges, last, prev, schedulerVars>>

\* load_config(force_reload=True).
\* A call of load_config; file is what CONFIG_FILE_PATH holds at the call.
LoadConfigCall(force_reload, file) ==
    LET loaded == load_config(force_reload, file)
    IN /\ ret' = [fn |-> "load_config",
                  arg |-> [force_reload |-> force_reload, exists |-> file.exists],
                  val |-> loaded.config, raised |-> FALSE]
       /\ cached_config' = loaded.config
       /\ config_file_has_schedules' = loaded.has_schedules
       /\ log' = loaded.log
       /\ UNCHANGED <<gauges, last, prev, schedulerVars>>

\* x is None, for an x that is None or a bool.
IsNone(x) == ToString(x) = ToString(PyNone)

\* has_custom_schedules: loads the config when no call has set the flag yet.
has_custom_schedules(file) ==
    IF IsNone(config_file_has_schedules)
    THEN load_config(FALSE, file)
    ELSE [config |-> cached_config, has_schedules |-> config_file_has_schedules,
          log |-> <<>>]

HasCustomSchedulesCall(file) ==
    LET loaded == has_custom_schedules(file)
    IN /\ ret' = [fn |-> "has_custom_schedules", arg |-> <<>>,
                  val |-> loaded.has_schedules, raised |-> FALSE]
       /\ cached_config' = loaded.config
       /\ config_file_has_schedules' = loaded.has_schedules
       /\ log' = loaded.log
       /\ UNCHANGED <<gauges, last, prev, schedulerVars>>

ReloadConfig(file) ==
    LET loaded == load_config(TRUE, file)
    IN /\ cached_config' = loaded.config
       /\ config_file_has_schedules' = loaded.has_schedules
       /\ log' = loaded.log
       /\ UNCHANGED <<gauges, last, prev, schedulerVars, ret>>

\* ------------------------------------------------------------ specification
\* No helper has been called yet; config.py's module globals start as None.
NoCall == [fn |-> "none", arg |-> <<>>, val |-> <<>>, raised |-> FALSE]

NoOp == Ran("none", QueryOk(<<>>), NoAux, FALSE)

Init ==
    /\ gauges = InitialGauges
    /\ log = <<>>
    /\ last = NoOp
    /\ prev = InitialGauges
    /\ pc = "main"
    /\ httpStarts = 0
    /\ environ = NoOverrides
    /\ started = <<>>
    /\ jobs = <<>>
    /\ fired = 0
    /\ executing = {}
    /\ ret = NoCall
    /\ cached_config = NotLoaded
    /\ config_file_has_schedules = PyNone

NextTechDebt ==
    \/ \E resp \in QueryResponses(FlexRecords) :
          monitor_apex_flex_queue(resp) /\ UNCHANGED mainVars
    \/ \E resp \in QueryResponses(PermSetRecords) :
          unassigned_permission_sets(resp) /\ UNCHANGED mainVars
    \/ \E resp \in QueryResponses(DashboardRecords) :
          dashboards_with_inactive_users(resp) /\ UNCHANGED mainVars

SpecTechDebt == Init /\ [][NextTechDebt]_vars

NextAudit ==
    \/ \E resp \in QueryResponses(DeployRecords) :
          get_deployment_status(resp) /\ UNCHANGED mainVars
    \/ \E resp \in QueryResponses(AuditRecords) :
          expose_suspicious_records(resp) /\ UNCHANGED mainVars
    \/ \E resp \in QueryResponses(AuditRecords) :
          sre_expose_suspicious_records(resp) /\ UNCHANGED mainVars

SpecAudit == Init /\ [][NextAudit]_vars

NextInstance ==
    \E resp \in QueryResponses(OrganizationRecords) :
        \E incidents \in IncidentAnswers(resp), maintenances \in MaintenanceAnswers(resp) :
            get_salesforce_instance(resp, incidents, maintenances) /\ UNCHANGED mainVars

SpecInstance == Init /\ [][NextInstance]_vars

NextLogin ==
    \E resp \in QueryResponses(LogFileRecords) :
        \E http \in LoginDownloads(resp) :
            monitor_login_events(resp, http) /\ UNCHANGED mainVars

SpecLogin == Init /\ [][NextLogin]_vars

NextQuery ==
    \/ \E resp \in QueryResponses(DeployRecords) : QueryCall(resp)
    \/ \E resp \in PagedResponses(DeployRecords) : ToolingQueryCall(resp)

SpecQuery == Init /\ [][NextQuery]_vars

NextParse ==
    \E schedule_str \in ScheduleStrings : ParseCall(schedule_str)

SpecParse == Init /\ [][NextParse]_vars

NextConfig ==
    \/ \E job_id \in ConfigJobIds, default_schedule \in {NoSchedule, Some(MinuteOnly(<<"*", "/", "5">>))},
          file \in ConfigFiles :
            ScheduleFromConfigCall(job_id, default_schedule, file)
    \/ \E file \in ConfigFiles : ReloadConfig(file)
    \/ \E force_reload \in BOOLEAN, file \in ConfigFiles : LoadConfigCall(force_reload, file)
    \/ \E file \in ConfigFiles : HasCustomSchedulesCall(file)

SpecConfig == Init /\ [][NextConfig]_vars

NextLargeQueries ==
    \E resp \in LatestLogResponses, directory \in UserDirectories :
        \E http \in ApiLogDownloads(resp) : LargeQueriesRun(resp, http, directory)

SpecLargeQueries == Init /\ [][NextLargeQueries]_vars

NextReportExport ==
    \/ \E resp \in LatestLogResponses, directory \in UserDirectories,
          report \in ReportAnswers :
            \E http \in ReportLogDownloads(resp) :
                hourly_report_export_records(resp, http, directory, report)
                /\ UNCHANGED mainVars
    \/ \E resp \in LatestLogResponses, directory \in UserDirectories,
          report \in ReportAnswers :
            \E http \in ReportLogDownloads(resp) :
                sre_hourly_report_export_records(resp, http, directory, report)
                /\ UNCHANGED mainVars

SpecReportExport == Init /\ [][NextReportExport]_vars

NextLimits ==
    \E resp \in LimitsResponses : monitor_salesforce_limits(resp) /\ UNCHANGED mainVars

SpecLimits == Init /\ [][NextLimits]_vars

NextApexSummary ==
    \E resp \in LatestLogResponses : \E http \in ApexLogDownloads(resp) :
        ApexSummaryRun(resp, http)

SpecApexSummary == Init /\ [][NextApexSummary]_vars

NextSleepLoop ==
    \/ SleepLoopStart
    \/ \E raises \in BOOLEAN : CycleStep(raises)
    \/ CycleSleep

SpecSleepLoop == Init /\ [][NextSleepLoop]_vars

NextSbx ==
    \/ \E ok \in BOOLEAN : SbxMain(ok)
    \/ \E found \in [SbxOrgs -> BOOLEAN] :
          \E incidents \in SbxIncidentAnswers(found) :
             \E maintenances \in SbxMaintenanceAnswers(found) :
                \/ SbxScheduleTasks(found, incidents, maintenances)
                \/ \E due \in BOOLEAN : SbxRunPending(due, found, incidents, maintenances)
    \/ SbxSleep

SpecSbx == Init /\ [][NextSbx]_vars

InitMain ==
    /\ gauges = InitialGauges
    /\ log = <<>>
    /\ last = NoOp
    /\ prev = InitialGauges
    /\ pc = "main"
    /\ httpStarts = 0
    /\ environ \in EnvConfigs
    /\ started = <<>>
    /\ jobs = <<>>
    /\ fired = 0
    /\ executing = {}
    /\ ret = NoCall
    /\ cached_config = NotLoaded
    /\ config_file_has_schedules = PyNone

NextMain ==
    \/ \E ok \in BOOLEAN : StartHttpServer(ok)
    \/ \E url \in AuthUrls, cli \in CliOutcomes : Connect(url, cli)
    \/ StartupCall
    \/ RegisterJobs
    \/ SchedulerStart
    \/ \E t \in Times : Tick(t)
    \/ \E j \in 1..Len(jobs) : Complete(j)
    \/ KeyboardInterrupt

SpecMain == InitMain /\ [][NextMain]_vars

\* ------------------------------------------------------------------ claims
Succeeded(resp) == resp.exc = "none" /\ resp.hasRecords

FlexSeriesOf(records) == {<<records[i].Id, records[i].ApexClassId>> : i \in 1..Len(records)}

FlexRunWithDistinctIds ==
    /\ last.op = "monitor_apex_flex_queue"
    /\ Succeeded(last.resp)
    /\ Len(last.resp.records) > 0
    /\ Distinct([i \in 1..Len(last.resp.records) |-> last.resp.records[i].Id])

\* C1: after a run of monitor_apex_flex_queue whose query returned N > 0
\* records with pairwise distinct Ids, apex_flex_queue exports exactly N
\* series, one per returned record and each with value 1, and nothing that an
\* earlier run had set remains.
C1_FlexQueueSnapshot ==
    FlexRunWithDistinctIds =>
        LET g == gauges["apex_flex_queue"]
        IN /\ Cardinality(DOMAIN g) = Len(last.resp.records)
           /\ DOMAIN g = FlexSeriesOf(last.resp.records)
           /\ \A l \in DOMAIN g : g[l] = 1

\* A run with distinct Ids that replaced a gauge holding a series (a stale
\* job, or the "none" sentinel) which the new result does not contain.
C1_Witness ==
    /\ FlexRunWithDistinctIds
    /\ \E l \in DOMAIN prev["apex_flex_queue"] : l \notin FlexSeriesOf(last.resp.records)
    /\ \E l \in DOMAIN prev["apex_flex_queue"] : l \in FlexSeriesOf(last.resp.records)

QueryCollectors ==
    {"monitor_apex_flex_queue", "unassigned_permission_sets", "dashboards_with_inactive_users"}

GaugeOf(op) ==
    CASE op = "monitor_apex_flex_queue" -> "apex_flex_queue"
      [] op = "unassigned_permission_sets" -> "unused_permissionsets"
      [] op = "dashboards_with_inactive_users" -> "dashboards_with_inactive_users"

\* C2: when the platform query behind query_records_all fails, the gauge of
\* the collector that asked exports the same series and values as before.
C2_QueryFailureKeepsGauge ==
    (last.op \in QueryCollectors /\ last.resp.exc # "none") =>
        gauges[GaugeOf(last.op)] = prev[GaugeOf(last.op)]

\* C3: after a successful run whose query returned zero rows, the collector's
\* gauge exports exactly one series, and its value is 0.
C3_EmptyResultSentinel ==
    (last.op \in QueryCollectors /\ Succeeded(last.resp) /\ last.resp.records = <<>>) =>
        LET g == gauges[GaugeOf(last.op)]
        IN /\ Cardinality(DOMAIN g) = 1
           /\ \A l \in DOMAIN g : g[l] = 0

Count(seq, x) == Cardinality({i \in 1..Len(seq) : seq[i] = x})

RegisteredIds == {jobs[i].id : i \in 1..Len(jobs)}

IsRegistered(name) == name \in RegisteredIds

\* C4: an exception raised inside a collector body never leaves the collector:
\* no collector call ends with an exception in its caller, so the startup pass
\* is never cut short and main goes on to scheduler.start().
C4_CollectorFailureContained ==
    /\ ~last.raised
    /\ (pc = "crashed" => Len(started) \in {0, Len(StartupOrder)})

\* C5: once schedule_tasks has returned, every job it registered has been
\* called exactly once by the startup pass, and the startup calls of the
\* registered jobs were made in the order of their registration.
C5_StartupPassCoversJobs ==
    pc \in {"start", "running", "shutdown"} =>
        /\ \A i \in 1..Len(jobs) : Count(started, jobs[i].id) = 1
        /\ SelectSeq(started, IsRegistered) = [i \in 1..Len(jobs) |-> jobs[i].id]

Unparsable(env_value) ==
    /\ env_value.set
    /\ env_value.text # <<>>
    /\ ~parse_cron_schedule(env_value.text).some
    /\ parse_cron_schedule(env_value.text).warned

\* C6: when SCHEDULE_<JOB_ID> holds a string that cannot be parsed, the job is
\* registered all the same, with its default trigger, and a warning is logged.
C6_MalformedOverrideFallsBack ==
    pc = "start" =>
        \A n \in 1..Len(JobTable) :
            (Unparsable(environ[JobTable[n].id]) /\ Truthy(JobTable[n].default)) =>
                /\ \E i \in 1..Len(jobs) :
                      /\ jobs[i].id = JobTable[n].id
                      /\ jobs[i].trigger = JobTable[n].default.val
                /\ \E i \in 1..Len(log) : log[i].level = "warning"

DeploymentGauges ==
    {"deployment_details", "deployment_pending_time", "deployment_time",
     "validation_details", "validation_pending_time", "validation_time"}

\* What a run over these records sets, starting from gauges that export nothing.
DeploymentSnapshot(records) ==
    ProcessDeployments([g \in GaugeNames |-> EmptyGauge], records).gauges

\* C7: after a successful run of get_deployment_status the deployment and
\* validation gauges export only series derived from the records of that run.
C7_DeploymentSnapshotOnly ==
    (last.op = "get_deployment_status" /\ Succeeded(last.resp) /\ Errors(log) = {}) =>
        \A g \in DeploymentGauges :
            DOMAIN gauges[g] \subseteq DOMAIN DeploymentSnapshot(last.resp.records)[g]

SuspiciousGaugeOf(op) ==
    IF op = "expose_suspicious_records" THEN "suspicious_records" ELSE "sre_suspicious_records"

\* C8: if the audit-trail query of expose_suspicious_records raises, the
\* suspicious-records gauge exports exactly the series it exported before.
C8_SuspiciousKeptOnQueryFailure ==
    (last.op \in {"expose_suspicious_records", "sre_expose_suspicious_records"}
     /\ last.resp.exc # "none") =>
        gauges[SuspiciousGaugeOf(last.op)] = prev[SuspiciousGaugeOf(last.op)]

\* C9: if the query for the latest login log or its download raises,
\* monitor_login_events leaves the three login gauges at their earlier values.
C9_LoginGaugesKeptOnFetchFailure ==
    (last.op = "monitor_login_events"
     /\ (last.resp.exc # "none" \/ last.aux.exc # "none")) =>
        \A g \in UnlabelledGauges : gauges[g] = prev[g]

\* C10: if the request for active incidents fails, get_salesforce_instance
\* leaves incident_gauge exporting exactly the series it exported before.
C10_IncidentsKeptOnRequestFailure ==
    (last.op = "get_salesforce_instance" /\ last.aux.exc # "none") =>
        gauges["salesforce_incidents"] = prev["salesforce_incidents"]

QueryHelpers == {"query_records_all", "tooling_query_records_all"}

\* C11: query_records_all and tooling_query_records_all never raise; when the
\* underlying call times out, reports a malformed request or fails otherwise,
\* they log one error and return an empty list.
C11_QueryHelpersNeverRaise ==
    ret.fn \in QueryHelpers =>
        /\ ~ret.raised
        /\ ret.arg.exc # "none" =>
              /\ ret.val = <<>>
              /\ Len(log) = 1
              /\ log[1].level = "error"

\* The tooling helper was called and the platform call failed with an
\* exception that only the last except clause catches.
C11_Witness ==
    /\ ret.fn = "tooling_query_records_all"
    /\ ret.arg.exc = "Exception"

\* C12: tooling_query_records_all returns every record of the result set, in
\* order, also when the platform splits the result over several pages.
C12_ToolingReturnsAllPages ==
    (ret.fn = "tooling_query_records_all" /\ ret.arg.exc = "none") =>
        ret.val = Unpaged(ret.arg)

\* C13: once the scheduler is started, at most one collector invocation is
\* executing at any instant; jobs that are due together run one after another.
C13_OneJobAtATime ==
    Cardinality(executing) <= 1

\* A job whose schedule resolves to disabled: its override is "disabled" or
\* "none", or it has no override and no default.
Overridden(env_value) == env_value.set /\ env_value.text # <<>>

ResolvesDisabled(job) ==
    \/ /\ Overridden(environ[job.id])
       /\ lower(environ[job.id].text) \in {<<"d", "i", "s", "a", "b", "l", "e", "d">>,
                                            <<"n", "o", "n", "e">>}
    \/ /\ ~Overridden(environ[job.id])
       /\ ~job.default.some

\* C14: a job whose schedule resolves to disabled is never passed to
\* scheduler.add_job, and so the scheduler never runs it.
C14_DisabledJobNeverRegistered ==
    \A n \in 1..Len(JobTable) :
        ResolvesDisabled(JobTable[n]) =>
            /\ \A i \in 1..Len(jobs) : jobs[i].id # JobTable[n].id
            /\ \A j \in executing : jobs[j].id # JobTable[n].id

\* The scheduler has submitted due jobs in a process whose environment
\* disables monitor_salesforce_limits, one of the every-5-minutes jobs.
C14_Witness ==
    /\ ResolvesDisabled(JobTable[1])
    /\ JobTable[1].default.some
    /\ pc = "running"
    /\ executing # {}

\* C15: parse_cron_schedule maps "*/5 * * * *" to {minute: "*/5"},
\* "hour=7,minute=30" to {hour: "7", minute: "30"} and the bare "*/5" to
\* {minute: "*/5"}.
C15_ParseDocumentedFormats ==
    ret.fn = "parse_cron_schedule" =>
        /\ ret.arg = <<"*", "/", "5", " ", "*", " ", "*", " ", "*", " ", "*">> =>
              ret.val = Parsed(MinuteOnly(<<"*", "/", "5">>))
        /\ ret.arg = <<"h", "o", "u", "r", "=", "7", ",", "m", "i", "n", "u", "t", "e", "=", "3", "0">> =>
              ret.val = Parsed(HourMinute(<<"7">>, <<"3", "0">>))
        /\ ret.arg = <<"*", "/", "5">> =>
              ret.val = Parsed(MinuteOnly(<<"*", "/", "5">>))

\* parse_cron_schedule has been applied to the five-field cron line.
C15_Witness ==
    /\ ret.fn = "parse_cron_schedule"
    /\ ret.arg = <<"*", "/", "5", " ", "*", " ", "*", " ", "*", " ", "*">>

\* The query selected no log file.
ZeroDescriptors(resp) == resp.exc = "none" /\ resp.hasRecords /\ resp.records = <<>>

\* The log file was found and downloaded with content.
LogFetched ==
    /\ Succeeded(last.resp) /\ last.resp.records # <<>>
    /\ last.aux.exc = "none" /\ ~last.aux.empty

\* Every row names a user, no two rows name the same one, every row has a count.
RowsOfDistinctUsers(rows) ==
    /\ \A i \in 1..Len(rows) : rows[i].USER_ID # "" /\ rows[i].ROWS_PROCESSED.some
    /\ \A i, j \in 1..Len(rows) : i # j => rows[i].USER_ID # rows[j].USER_ID

Exceeding(rows) ==
    {i \in 1..Len(rows) : /\ IsNumber(rows[i].ROWS_PROCESSED.text)
                          /\ int(rows[i].ROWS_PROCESSED.text) > LARGE_QUERY_THRESHOLD}

\* C16: after hourly_observe_user_querying_large_records has read a log whose
\* rows are of distinct users, hourly_large_query_metric exports one series
\* for each row whose ROWS_PROCESSED exceeds LARGE_QUERY_THRESHOLD and for no
\* other row: user_id, method and entity_name are the row's USER_ID,
\* METHOD_NAME and ENTITY_NAME, the value is the row's count, and the sentinel
\* series is absent when a row exceeds the threshold.
C16_SeriesForLargeRowsOnly ==
    (/\ last.op = "hourly_observe_user_querying_large_records"
     /\ LogFetched
     /\ RowsOfDistinctUsers(last.aux.rows))
    => LET rows == last.aux.rows
           g == gauges["hourly_large_query_metric"]
           exported == DOMAIN g \ {NoLargeQueries}
       IN /\ {<<l[1], l[3], l[4]>> : l \in exported} =
                {<<rows[i].USER_ID, rows[i].METHOD_NAME, rows[i].ENTITY_NAME>> :
                    i \in Exceeding(rows)}
          /\ Cardinality(exported) = Cardinality(Exceeding(rows))
          /\ \A l \in exported : \E i \in Exceeding(rows) :
                /\ l[1] = rows[i].USER_ID
                /\ g[l] = int(rows[i].ROWS_PROCESSED.text)
          /\ Exceeding(rows) # {} => NoLargeQueries \notin DOMAIN g
          /\ ~last.raised

\* The documented scenario: rows of 5000, 15000 and 20000, two series.
C16_Witness ==
    /\ last.op = "hourly_observe_user_querying_large_records"
    /\ last.aux.rows = ThreeUserLog
    /\ Cardinality(DOMAIN gauges["hourly_large_query_metric"]) = 2
    /\ <<"u2", "Bob", "query", "Account">> \in DOMAIN gauges["hourly_large_query_metric"]

\* C17: when the log query selects no log file, parse_logs returns None
\* without raising, and hourly_observe_user_querying_large_records returns
\* normally with hourly_large_query_metric exporting the sentinel series
\* (user_name 'No Large Queries', value 0) and nothing else.
C17_NoLogGivesSentinel ==
    /\ (ret.fn = "parse_logs" /\ ZeroDescriptors(ret.arg))
       => ~ret.val.some /\ ~ret.raised
    /\ (last.op = "hourly_observe_user_querying_large_records" /\ ZeroDescriptors(last.resp))
       => /\ DOMAIN gauges["hourly_large_query_metric"] = {NoLargeQueries}
          /\ gauges["hourly_large_query_metric"][NoLargeQueries] = 0
          /\ NoLargeQueries[2] = "No Large Queries"
          /\ ~last.raised

\* A run without a log file that replaced the series of an earlier run.
C17_Witness ==
    /\ last.op = "hourly_observe_user_querying_large_records"
    /\ ZeroDescriptors(last.resp)
    /\ ret.fn = "parse_logs" /\ ZeroDescriptors(ret.arg)
    /\ prev["hourly_large_query_metric"] # EmptyGauge
    /\ NoLargeQueries \notin DOMAIN prev["hourly_large_query_metric"]
    /\ NoLargeQueries \in DOMAIN gauges["hourly_large_query_metric"]

ReportExportCollectors ==
    {"hourly_report_export_records", "sre_hourly_report_export_records"}

\* C18: when the ReportExport log query selects no log file,
\* hourly_report_export_records ends without an exception inside it (no
\* error is logged) and hourly_report_export_metric exports a sentinel series
\* whose value is 0.
C18_ReportExportSentinel ==
    (last.op \in ReportExportCollectors /\ ZeroDescriptors(last.resp))
    => /\ Errors(log) = {}
       /\ \E l \in DOMAIN gauges["hourly_report_export_metric"] :
             gauges["hourly_report_export_metric"][l] = 0

\* C19: when sf.limits() raises, monitor_salesforce_limits returns normally,
\* api_usage_percentage_gauge exports the series it exported before the call
\* with their values, and one error is logged.
C19_LimitsFailureKeepsGauge ==
    (last.op = "monitor_salesforce_limits" /\ last.resp.exc # "none")
    => /\ ~last.raised
       /\ gauges["api_usage_percentage_gauge"] = prev["api_usage_percentage_gauge"]
       /\ Cardinality(Errors(log)) = 1

\* sf.limits() raised while the gauge held series of an earlier run.
C19_Witness ==
    /\ last.op = "monitor_salesforce_limits"
    /\ last.resp.exc # "none"
    /\ prev["api_usage_percentage_gauge"] # EmptyGauge
    /\ gauges["api_usage_percentage_gauge"] # EmptyGauge

\* The config file as load_config gave it to the call.
FileInEffect == ret.arg.file

NoSchedulesInEffect ==
    \/ ~FileInEffect.exists
    \/ FileInEffect.valid /\ DOMAIN FileInEffect.schedules = {}

SchedulesInEffect ==
    FileInEffect.exists /\ FileInEffect.valid /\ DOMAIN FileInEffect.schedules # {}

\* C20: get_schedule_from_config returns the default schedule when there is
\* no config file or its schedules map is empty; with a non-empty map it
\* returns a schedule only for a job the map lists, None for an unlisted job,
\* and None for a listed job whose value is "disabled".
C20_ScheduleFromConfig ==
    ret.fn = "get_schedule_from_config" =>
        /\ NoSchedulesInEffect => ret.val = ret.arg.default
        /\ SchedulesInEffect =>
              /\ ret.val.some => ret.arg.job_id \in DOMAIN FileInEffect.schedules
              /\ ret.arg.job_id \notin DOMAIN FileInEffect.schedules => ~ret.val.some
              /\ (/\ ret.arg.job_id \in DOMAIN FileInEffect.schedules
                  /\ FileInEffect.schedules[ret.arg.job_id] =
                         JsonText(<<"d", "i", "s", "a", "b", "l", "e", "d">>))
                    => ~ret.val.some

\* A job that has a default schedule was asked for while the file lists
\* other jobs only.
C20_Witness ==
    /\ ret.fn = "get_schedule_from_config"
    /\ SchedulesInEffect
    /\ ret.arg.job_id \notin DOMAIN FileInEffect.schedules
    /\ ret.arg.default.some

\* C21: when the schedules map gives a job a JSON object of trigger
\* parameters, get_schedule_from_config returns those parameters for the job
\* and does not raise.
C21_ObjectScheduleAccepted ==
    (/\ ret.fn = "get_schedule_from_config"
     /\ SchedulesInEffect
     /\ ret.arg.job_id \in DOMAIN FileInEffect.schedules
     /\ FileInEffect.schedules[ret.arg.job_id].object)
    => /\ ~ret.raised
       /\ ret.val = Some(FileInEffect.schedules[ret.arg.job_id].members)

\* The session exists, a collector has run, a job is registered or the
\* scheduler was started.
PastServerStart ==
    \/ ret.fn = "get_salesforce_connection_url"
    \/ started # <<>> \/ jobs # <<>> \/ fired > 0
    \/ pc \in {"connect", "startup", "register", "start", "running", "shutdown"}

\* C22: main starts the metrics HTTP listener once, and has done so before
\* it creates the session, before any collector of the startup pass runs and
\* before scheduler.start().
C22_ServerStartedOnceFirst ==
    /\ httpStarts <= 1
    /\ PastServerStart => httpStarts = 1
    /\ pc = "main" => httpStarts = 0 /\ ~PastServerStart

\* The scheduler runs and the listener was started once.
C22_Witness ==
    /\ pc = "running"
    /\ httpStarts = 1
    /\ Len(started) = Len(StartupOrder)

ConnectionFailed == ret.fn = "get_salesforce_connection_url" /\ ret.raised

\* C23: get_salesforce_connection_url raises for a missing credential before
\* it runs a command or writes the temp file, and raises when a CLI command
\* exits non-zero or its output lacks a field; main then ends: no collector
\* has run, no job is registered, the scheduler is not started and the
\* connection is not tried again.
C23_ConnectionFailureEndsMain ==
    /\ (ret.fn = "get_salesforce_connection_url" /\ ret.arg.url \in {PyNone, ""})
       => ret.raised /\ ret.val.commands = 0 /\ ~ret.val.temp_written
    /\ (/\ ret.fn = "get_salesforce_connection_url"
        /\ ret.arg.url \notin {PyNone, ""}
        /\ ret.arg.cli \in {"LoginFailed", "DisplayFailed", "KeyError"})
       => ret.raised
    /\ ConnectionFailed
       => pc = "crashed" /\ started = <<>> /\ jobs = <<>> /\ fired = 0 /\ executing = {}

\* main ended on a missing credential.
C23_Witness ==
    /\ ConnectionFailed
    /\ ret.arg.url = PyNone
    /\ pc = "crashed"
    /\ httpStarts = 1

ApexSummaryGauges ==
    {"apex_entry_point_count", "apex_avg_runtime", "apex_max_runtime",
     "apex_total_runtime", "apex_avg_cputime", "apex_max_cputime",
     "apex_runtime_gt_5s_count", "apex_runtime_gt_10s_count",
     "apex_runtime_gt_5s_percentage"}

\* C24: a run of async_apex_execution_summary that follows a run against
\* the same log leaves every gauge the summary writes, apex_entry_point_count,
\* apex_runtime_gt_5s_count and apex_runtime_gt_10s_count among them, with
\* the values it had after the first run.
C24_SummaryIdempotent ==
    [][(/\ last.op = "sre_async_apex_execution_summary"
        /\ last'.op = "sre_async_apex_execution_summary"
        /\ last'.resp = last.resp
        /\ last'.aux = last.aux)
       => \A n \in ApexSummaryGauges : gauges'[n] = gauges[n]]_vars

\* C25: when fetch_pod fails inside a get_salesforce_instance that
\* schedule.run_pending() called (the Organization query of a sandbox returns
\* no row), the exception stays inside run_pending and main goes on to its
\* next pass: main never ends on it once the jobs are registered.
C25_FailureStaysInRunPending ==
    (last.op = "sbx_get_salesforce_instance" /\ last.raised /\ jobs = SbxJobs)
    => pc # "crashed"

\* C26: in the 30-minute loop every call of the pass is made once whatever the
\* calls before it raised: when main goes to sleep, the whole of CycleCalls
\* has been called in this pass.
C26_EveryCollectorEachCycle ==
    pc = "sleep" => started = CycleCalls

\* C27: parse_cron_schedule returns a mapping, never None, for every
\* five-field cron line, "* * * * *" among them.
C27_CronLineAlwaysParsed ==
    (ret.fn = "parse_cron_schedule" /\ ret.arg \in CronLines) => ret.val.some

\* C28: get_salesforce_incidents sets an incident series only for an
\* incident whose instanceKeys list holds the org's pod as one of its
\* elements: every series of salesforce_incidents other than the 'ok'
\* sentinel names an incident that lists the pod of the series.
C28_IncidentOnlyForListedPod ==
    (last.op = "get_salesforce_instance" /\ PodFound(last.resp)) =>
        \A l \in DOMAIN gauges["salesforce_incidents"] :
            l[3] # "ok" =>
                \E element \in Incidents :
                    /\ element.id = l[4]
                    /\ \E i \in 1..Len(element.instanceKeys) : element.instanceKeys[i] = l[2]

\* The tuples collect_large_queries builds from the rows, the user's name
\* left out (it is a function of the user id).
LargeQueryTuples(rows) ==
    {<<rows[i].USER_ID, rows[i].METHOD_NAME, rows[i].ENTITY_NAME,
       int(rows[i].ROWS_PROCESSED.text)>> : i \in {j \in Exceeding(rows) : rows[j].USER_ID # ""}}

\* C29: report_large_queries exports one series for each element of the set
\* of large-query tuples, its value the tuple's rows_processed: the number of
\* series is the size of the set, also when two tuples have the same labels
\* and different counts, and every tuple's count is the value of its series.
C29_OneSeriesPerTuple ==
    (/\ last.op = "hourly_observe_user_querying_large_records"
     /\ LogFetched
     /\ \A i \in 1..Len(last.aux.rows) : last.aux.rows[i].ROWS_PROCESSED.some
     /\ LargeQueryTuples(last.aux.rows) # {})
    => LET g == gauges["hourly_large_query_metric"]
           tuples == LargeQueryTuples(last.aux.rows)
       IN /\ Cardinality(DOMAIN g) = Cardinality(tuples)
          /\ \A q \in tuples : \E l \in DOMAIN g :
                l[1] = q[1] /\ l[3] = q[2] /\ l[4] = q[3] /\ g[l] = q[4]

\* C30: once a config is cached, the flag has_custom_schedules returns is
\* true exactly when the cached config's schedules map is non-empty, and
\* has_custom_schedules returns with a config cached and with that value; a
\* load_config call without force_reload made when a config is cached
\* returns that config and leaves the cache and the flag as they are,
\* whatever the file holds at the call.
C30_FlagFollowsCachedSchedules ==
    /\ [](cached_config.loaded =>
             /\ ~IsNone(config_file_has_schedules)
             /\ config_file_has_schedules <=> (DOMAIN cached_config.schedules # {}))
    /\ [][(ret' # ret /\ ret'.fn = "has_custom_schedules")
          => /\ cached_config'.loaded
             /\ ret'.val <=> (DOMAIN cached_config'.schedules # {})]_vars
    /\ [][(/\ cached_config.loaded
           /\ ret' # ret
           /\ ret'.fn = "load_config"
           /\ ~ret'.arg.force_reload)
          => /\ ret'.val = cached_config
             /\ cached_config' = cached_config
             /\ config_file_has_schedules' = config_file_has_schedules
             /\ log' = <<>>]_vars

\* A file with schedules is cached, the file on disk has since gone, and a
\* load_config call without force_reload has returned the cached schedules.
C30_Witness ==
    /\ ret.fn = "load_config"
    /\ ~ret.arg.force_reload
    /\ ~ret.arg.exists
    /\ cached_config.file.exists
    /\ DOMAIN cached_config.schedules # {}
    /\ config_file_has_schedules = TRUE

====
